---- MODULE Spec2Model ----
(***************************************************************************)
(* A model of the trajector tracking pipeline: TrackingPipeline            *)
(* (src/src/processors/pipeline.py), ObjectTracker (src/src/core/          *)
(* tracker.py), TrajectoryVisualizer (src/src/core/visualizer.py) and the  *)
(* video sources (src/src/sources/).                                       *)
(*                                                                         *)
(* Python's None is the empty tuple None and a present value v is the      *)
(* one-element tuple Some(v), so that optional values always compare.      *)
(***************************************************************************)
EXTENDS Integers, Sequences, FiniteSets, TLC

VARIABLES
    \* ---- the pipeline object and its collaborators
    frame_processors,   \* TrackingPipeline.frame_processors
    tracks,             \* ObjectTracker.tracks: identity -> sequence of centers
    visualizer,         \* TrajectoryVisualizer's heatmap fields
    calls,              \* every call made on a collaborator, in order
    frame_result,       \* what the last process_frame call returned / raised
    direct_calls,       \* number of process_frame calls made by a caller directly
    \* ---- one process_video call
    pc,                 \* position in process_video
    args,               \* process_video's arguments
    source,             \* the video source handed to process_video
    props,              \* local props
    out,                \* local out
    frame_count,        \* local frame_count
    last_read,          \* local (ret, frame)
    vis_frame,          \* local vis_frame
    pending,            \* the exception propagating out of the try block
    summary,            \* the value process_video returned
    \* ---- one video source used on its own
    src_obj,            \* the VideoFileSource / WebcamSource object (or None)
    cap,                \* the cv2.VideoCapture the constructor created
    src_log,            \* calls made on the capture and their outcomes
    scope,              \* position of the caller relative to a with-block
    src_exc             \* the exception the last source call raised / that propagates

pipeVars  == <<frame_processors, tracks, visualizer, calls, frame_result, direct_calls>>
videoVars == <<pc, args, source, props, out, frame_count, last_read, vis_frame,
               pending, summary>>
srcVars   == <<src_obj, cap, src_log, scope, src_exc>>
vars      == <<pipeVars, videoVars, srcVars>>

(***************************************************************************)
(* Bounds of the model.                                                    *)
(***************************************************************************)
MaxFrames == 2      \* frames a source delivers before its read fails
MaxProcs  == 2      \* post-processors registered on one pipeline
MaxDirect == 2      \* direct process_frame calls in the single-frame specification
MaxSrcOps == 4      \* read / release / get_properties calls on a source used alone

None    == <<>>
Some(v) == <<v>>
IsNone(o) == o = <<>>
Get(o)  == o[1]

(***************************************************************************)
(* Values handed around: frames, detections, tracker output.               *)
(***************************************************************************)
Ids      == {1, 2}                          \* identities ByteTrack hands out
Procs    == {"A", "B"}                      \* the callables a caller may register
Shapes   == {<<3, 4>>}                      \* (height, width) of the frames
Boxes    == {<<0, 0, 2, 2>>, <<1, 1, 4, 3>>}

\* A frame as read from a source: no annotation on it yet.
RawFrame(k, shape) ==
    [id |-> k, shape |-> shape, heat |-> None, objs |-> <<>>, marks |-> <<>>]

Detection(b) == [bbox |-> b, confidence |-> 1, class_id |-> 0]

\* What YOLO may report for a frame.
DetectionLists ==
    {<<>>, <<Detection(<<0, 0, 2, 2>>)>>,
     <<Detection(<<0, 0, 2, 2>>), Detection(<<1, 1, 4, 3>>)>>}

\* What ByteTrack may report for a non-empty detection list: tracks with an
\* identity and a box, at most one per detection.
ByteTrack(id, b) == [tracker_id |-> Some(id), xyxy |-> b]
ByteOutputs(detections) ==
    {<<>>} \cup {<<ByteTrack(i, d.bbox)>> : i \in Ids, d \in {detections[1]}}
           \cup (IF Len(detections) >= 2
                 THEN {<<ByteTrack(1, detections[1].bbox), ByteTrack(2, detections[2].bbox)>>}
                 ELSE {})

(***************************************************************************)
(* ObjectTracker (src/src/core/tracker.py).                                *)
(***************************************************************************)
\* Python's int() of a float: truncation toward zero.
IntTrunc2(n) == IF n >= 0 THEN n \div 2 ELSE -((-n) \div 2)

\* The center as it would be if the box's top-left corner were taken.
CenterOfCorner(xyxy) == <<xyxy[1], xyxy[2]>>

Center(xyxy) == <<IntTrunc2(xyxy[1] + xyxy[3]), IntTrunc2(xyxy[2] + xyxy[4])>>

\* The append as it would be on a store that keeps only the newest two
\* points of an identity (a deque with maxlen).
StoreAppendBounded(store, id, c) ==
    IF id \in DOMAIN store
    THEN [store EXCEPT ![id] = IF Len(@) >= 2 THEN Tail(Append(@, c))
                               ELSE Append(@, c)]
    ELSE [k \in DOMAIN store \cup {id} |-> IF k = id THEN <<c>> ELSE store[k]]

\* self.tracks[track_id].append(center) on a defaultdict(list)
StoreAppend(store, id, c) ==
    IF id \in DOMAIN store
    THEN [store EXCEPT ![id] = Append(@, c)]
    ELSE [k \in DOMAIN store \cup {id} |-> IF k = id THEN <<c>> ELSE store[k]]

EmptyStore == [k \in {} |-> <<>>]

\* The loop of update over ByteTrack's output, from position i on.
RECURSIVE TrackLoop(_, _, _, _)
TrackLoop(store, byteOut, i, acc) ==
    IF i > Len(byteOut) THEN [tracks |-> store, objects |-> acc]
    ELSE LET t == byteOut[i] IN
         IF IsNone(t.tracker_id) THEN TrackLoop(store, byteOut, i + 1, acc)
         ELSE LET id  == Get(t.tracker_id)
                  c   == Center(t.xyxy)
                  st  == StoreAppend(store, id, c)
                  obj == [id |-> id, bbox |-> t.xyxy, center |-> c,
                          trajectory |-> st[id]]
              IN TrackLoop(st, byteOut, i + 1, Append(acc, obj))

\* update as it would be if, given no detections, it reported the stored
\* identities again instead of returning at once.
TrackerUpdateReportingStored(store, detections, byteOut) ==
    IF detections = <<>>
    THEN [tracks |-> store,
          objects |-> IF DOMAIN store = {} THEN <<>>
                      ELSE LET id == CHOOSE i \in DOMAIN store : TRUE
                           IN <<[id |-> id, bbox |-> <<0, 0, 2, 2>>,
                                 center |-> store[id][Len(store[id])],
                                 trajectory |-> store[id]]>>]
    ELSE TrackLoop(store, byteOut, 1, <<>>)

\* ObjectTracker.update: byteOut is what ByteTrack answers when it is asked.
TrackerUpdate(store, detections, byteOut) ==
    IF detections = <<>> THEN [tracks |-> store, objects |-> <<>>]
    ELSE TrackLoop(store, byteOut, 1, <<>>)

\* ObjectTracker.get_all_trajectories
GetAllTrajectories(store) == store

(***************************************************************************)
(* Images as TrajectoryVisualizer (src/src/core/visualizer.py) builds    *)
(* them.  An image is [channels, shape, px, finite]: shape is (height,     *)
(* width), px maps each pixel <<x, y>> to its value (an intensity for one  *)
(* channel, a <<b, g, r>> triple for three) and finite says that no value  *)
(* is NaN or Inf.  A float intensity v is held as the integer v * One; the *)
(* model's frames are a few pixels wide, so the radius of the painted      *)
(* discs and the Gaussian kernel are scaled down with them.                *)
(***************************************************************************)
One       == 1000       \* the float 1.0
Eps       == 1          \* the 1e-8 added to the normalization denominator
Radius    == 1          \* radius of the discs cv2.circle paints
MaxLevel  == 255        \* the largest uint8
NumColors == 100        \* len(self.colors)
TrajectoryLength == 50  \* trajectory_length
TrajectoryThickness == 2  \* trajectory_thickness
DotStep == 5            \* trajectory[::5]
DotScale == 3           \* int(3 * (i / len(trajectory)))

Cells(shape) == (0..(shape[2] - 1)) \X (0..(shape[1] - 1))

\* np.zeros((h, w), dtype=np.float32)
Zeros(shape) == [c \in Cells(shape) |-> 0]

\* cv2.circle(field, p, Radius, value, -1): the pixels of the disc take value
Circle(field, p, value) ==
    [c \in DOMAIN field |->
        IF (c[1] - p[1]) * (c[1] - p[1]) + (c[2] - p[2]) * (c[2] - p[2])
               <= Radius * Radius
        THEN value ELSE field[c]]

FieldValues(field) == {field[c] : c \in DOMAIN field}
FieldMax(field) == LET vals == FieldValues(field)
                   IN CHOOSE m \in vals : \A v \in vals : v <= m
FieldMin(field) == LET vals == FieldValues(field)
                   IN CHOOSE m \in vals : \A v \in vals : v >= m

\* cv2.GaussianBlur with its default border (reflection without the edge
\* pixel), the kernel scaled down to 3 x 3: weights (1, 2, 1) x (1, 2, 1) / 16
Reflect(i, n) == IF n = 1 THEN 0
                 ELSE IF i < 0 THEN -i
                 ELSE IF i > n - 1 THEN 2 * (n - 1) - i ELSE i
BlurRow(field, shape, x, y) ==
    LET yy == Reflect(y, shape[1])
    IN field[<<Reflect(x - 1, shape[2]), yy>>] + 2 * field[<<Reflect(x, shape[2]), yy>>]
       + field[<<Reflect(x + 1, shape[2]), yy>>]
GaussianBlur(field, shape) ==
    [c \in DOMAIN field |->
        (BlurRow(field, shape, c[1], c[2] - 1) + 2 * BlurRow(field, shape, c[1], c[2])
         + BlurRow(field, shape, c[1], c[2] + 1)) \div 16]

\* cv2.COLORMAP_JET (piecewise linear) and cv2.COLOR_BGR2GRAY
Clamp(v, lo, hi) == IF v < lo THEN lo ELSE IF v > hi THEN hi ELSE v
Abs(v) == IF v < 0 THEN -v ELSE v
Jet(level) == <<Clamp(382 - Abs(4 * level - 255), 0, MaxLevel),
                Clamp(382 - Abs(4 * level - 510), 0, MaxLevel),
                Clamp(382 - Abs(4 * level - 765), 0, MaxLevel)>>
Gray(bgr) == (114 * bgr[1] + 587 * bgr[2] + 299 * bgr[3]) \div 1000

\* cv2.applyColorMap(levels, cv2.COLORMAP_JET)
ApplyColorMap(levels, shape, finite) ==
    [channels |-> 3, shape |-> shape, finite |-> finite,
     px |-> [c \in DOMAIN levels |-> Jet(levels[c])]]

\* cv2.resize(image, (width, height)), sampled at the nearest pixel
Resize(image, shape) ==
    [image EXCEPT
        !.shape = shape,
        !.px = [c \in Cells(shape) |->
                   image.px[<<(c[1] * image.shape[2]) \div shape[2],
                              (c[2] * image.shape[1]) \div shape[1]>>]]]

(***************************************************************************)
(* TrajectoryVisualizer.create_heatmap and create_realtime_heatmap.  A     *)
(* trajectory store is iterated in ascending order of identity, the order  *)
(* in which ByteTrack hands identities out.                                *)
(***************************************************************************)
RECURSIVE SortedIds(_)
SortedIds(S) == IF S = {} THEN <<>>
                ELSE LET m == CHOOSE i \in S : \A j \in S : i <= j
                     IN <<m>> \o SortedIds(S \ {m})

\* create_heatmap's loop over the points of one trajectory, from position i on
RECURSIVE StaticPoints(_, _, _)
StaticPoints(field, trajectory, i) ==
    IF i > Len(trajectory) THEN field
    ELSE StaticPoints(Circle(field, trajectory[i], One), trajectory, i + 1)

\* create_heatmap's loop over all_trajectories.items()
RECURSIVE StaticLoop(_, _, _)
StaticLoop(field, store, ids) ==
    IF ids = <<>> THEN field
    ELSE StaticLoop(StaticPoints(field, store[Head(ids)], 1), store, Tail(ids))

\* The normalization denominator as it would be without the 1e-8.
DenominatorNoEps(field) == FieldMax(field) - FieldMin(field)

\* heatmap.max() - heatmap.min() + 1e-8
Denominator(field) == FieldMax(field) - FieldMin(field) + Eps

\* (heatmap - heatmap.min()) / denominator, then (heatmap * 255).astype(np.uint8)
NormalizedLevels(field, lo, den) ==
    [c \in DOMAIN field |->
        IF den = 0 THEN 0 ELSE ((field[c] - lo) * MaxLevel) \div den]

\* Lines 122-124: normalize and apply the colormap.  A zero denominator
\* would leave NaN in the normalized field (finite FALSE).
Colorize(blurred, shape) ==
    ApplyColorMap(NormalizedLevels(blurred, FieldMin(blurred), Denominator(blurred)),
                  shape, Denominator(blurred) # 0)

\* create_heatmap(frame_shape, all_trajectories): the colorized image
CreateHeatmap(shape, store) ==
    Colorize(GaussianBlur(StaticLoop(Zeros(shape), store, SortedIds(DOMAIN store)),
                          shape),
             shape)

\* create_realtime_heatmap's loop over the points of one trajectory: point
\* i (counted from 1) of n is painted with weight i / n when it lies in the frame
RECURSIVE RealtimePoints(_, _, _, _)
RealtimePoints(field, shape, trajectory, i) ==
    IF i > Len(trajectory) THEN field
    ELSE LET p == trajectory[i]
             inside == 0 <= p[1] /\ p[1] < shape[2] /\ 0 <= p[2] /\ p[2] < shape[1]
         IN RealtimePoints(IF inside
                           THEN Circle(field, p, (i * One) \div Len(trajectory))
                           ELSE field,
                           shape, trajectory, i + 1)

RECURSIVE RealtimeLoop(_, _, _, _)
RealtimeLoop(field, shape, store, ids) ==
    IF ids = <<>> THEN field
    ELSE RealtimeLoop(RealtimePoints(field, shape, store[Head(ids)], 1),
                      shape, store, Tail(ids))

\* The single-frame contribution create_realtime_heatmap builds (lines 147-158)
FreshContribution(shape, store) ==
    RealtimeLoop(Zeros(shape), shape, store, SortedIds(DOMAIN store))

\* cv2.cvtColor(cache, cv2.COLOR_BGR2GRAY).astype(np.float32) / 255.0
ToIntensity(image) ==
    [channels |-> 1, shape |-> image.shape, finite |-> image.finite,
     px |-> [c \in DOMAIN image.px |-> (Gray(image.px[c]) * One) \div MaxLevel]]

\* Lines 177-178: division by the maximum when it is positive
NormalizeBy(blurred, hi, shape) ==
    [channels |-> 1, shape |-> shape, finite |-> TRUE,
     px |-> IF hi > 0 THEN [c \in DOMAIN blurred |-> (blurred[c] * One) \div hi]
            ELSE blurred]

Normalized(blurred, shape) == NormalizeBy(blurred, FieldMax(blurred), shape)

\* Blur and normalize (lines 176-178): what is kept as the cache
BlurNormalize(field, shape) == Normalized(GaussianBlur(field, shape), shape)

\* The combination of the decayed cache and the fresh contribution as it
\* would be if the decay factor were not applied.
CombineUndecayed(cachePx, decay, fresh) ==
    [c \in DOMAIN fresh |-> cachePx[c] + fresh[c]]

\* self._heatmap_cache.astype(np.float32) * decay_factor + current_heatmap
Combine(cachePx, decay, fresh) ==
    [c \in DOMAIN fresh |-> (cachePx[c] * decay) \div One + fresh[c]]

\* Lines 166-169: a resized cache that is colorized goes back to one channel
ConvertResized(image, wasResized) ==
    IF wasResized /\ image.channels = 3 THEN ToIntensity(image) ELSE image

\* Lines 163-169: the cache as it is combined with the fresh contribution
PreviousField(cached, shape) ==
    ConvertResized(IF cached.shape # shape THEN Resize(cached, shape) ELSE cached,
                   cached.shape # shape)

\* Lines 181-187: the cache kept and the colorized image returned
RealtimeResult(viz, shape, prev, kept) ==
    [viz |-> [viz EXCEPT !.heatmap_cache = Some(kept)],
     image |-> Some(ApplyColorMap([c \in DOMAIN kept.px |->
                                      (kept.px[c] * MaxLevel) \div One],
                                  shape, TRUE)),
     combined |-> prev, exc |-> None]

\* Lines 171-187 for the previous field prev (None without a cache): numpy
\* raises ValueError when it is asked to add a (h, w, 3) array to a (h, w)
\* one, and the cache stays what it was made at lines 163-169.
RealtimeCombine(viz, shape, prev, fresh, decay) ==
    IF ~IsNone(prev) /\ Get(prev).channels # 1
    THEN [viz |-> [viz EXCEPT !.heatmap_cache = prev], image |-> None,
          combined |-> None, exc |-> Some("ValueError")]
    ELSE RealtimeResult(viz, shape, prev,
             BlurNormalize(IF IsNone(prev) THEN fresh
                           ELSE Combine(Get(prev).px, decay, fresh), shape))

\* create_realtime_heatmap(frame_shape, current_trajectories, decay_factor) on
\* a visualizer viz: the visualizer afterwards, the image returned, the
\* field the fresh contribution was combined with, and the exception raised.
CreateRealtimeHeatmap(viz, shape, store, decay) ==
    RealtimeCombine(viz, shape,
                    IF IsNone(viz.heatmap_cache) THEN None
                    ELSE Some(PreviousField(Get(viz.heatmap_cache), shape)),
                    FreshContribution(shape, store), decay)

(***************************************************************************)
(* TrajectoryVisualizer's configuration methods.                           *)
(***************************************************************************)
\* Python's min and max of two numbers: the first argument on a tie
PyMin(a, b) == IF b < a THEN b ELSE a
PyMax(a, b) == IF b > a THEN b ELSE a

\* toggle_heatmap
ToggleHeatmap(viz) ==
    [viz EXCEPT !.show_heatmap = ~viz.show_heatmap,
                !.heatmap_cache = IF viz.show_heatmap THEN None ELSE @]

\* set_heatmap_alpha as it would be without the clamp.
SetHeatmapAlphaUnclamped(viz, alpha) == [viz EXCEPT !.heatmap_alpha = alpha]

\* set_heatmap_alpha
SetHeatmapAlpha(viz, alpha) ==
    [viz EXCEPT !.heatmap_alpha = PyMax(0, PyMin(One, alpha))]

\* reset_heatmap_cache
ResetHeatmapCache(viz) == [viz EXCEPT !.heatmap_cache = None, !.frame_count = 0]

(***************************************************************************)
(* TrajectoryVisualizer.draw_frame.  The arrays of one call are the        *)
(* caller's frame, the copy made of it and the array cv2.addWeighted       *)
(* returns; vis names the one the local vis_frame is bound to.             *)
(***************************************************************************)
\* Python truthiness of an optional dict
Truthy(optStore) == ~IsNone(optStore) /\ DOMAIN Get(optStore) # {}

\* vis_frame as it would be bound without the copy: to the caller's array.
FrameAlias(frame) ==
    [bufs |-> [frame |-> Some(frame), copy |-> None, blend |-> None], vis |-> "frame"]

\* vis_frame = frame.copy()
FrameCopy(frame) ==
    [bufs |-> [frame |-> Some(frame), copy |-> Some(frame), blend |-> None],
     vis |-> "copy"]

\* vis_frame = cv2.addWeighted(vis_frame, 1 - alpha, image, alpha, 0): a new
\* array, in which what had been drawn on vis_frame (under) is mixed with the
\* image.
AddWeighted(h, image, alpha) ==
    [bufs |-> [h.bufs EXCEPT !.blend =
                  Some([Get(h.bufs[h.vis]) EXCEPT
                           !.heat = Some([image |-> image, alpha |-> alpha,
                                          under |-> Get(h.bufs[h.vis]).objs]),
                           !.objs = <<>>])],
     vis |-> "blend"]

\* cv2.rectangle / putText / line / circle: drawn into the array vis_frame names
Paint(h, prims) ==
    [h EXCEPT !.bufs[h.vis] = Some([Get(@) EXCEPT !.objs = @ \o prims])]

\* seq[k:] for k >= 0
DropFirst(seq, k) == IF k >= Len(seq) THEN <<>> ELSE SubSeq(seq, k + 1, Len(seq))

\* trajectory[-n:]: Python counts a negative start from the end, and -0 is
\* the start 0, which is the whole sequence.
LastN(seq, n) ==
    IF n > 0 THEN DropFirst(seq, IF n >= Len(seq) THEN 0 ELSE Len(seq) - n)
    ELSE DropFirst(seq, -n)

\* Lines 94-101: the segments between consecutive points, the i-th with
\* thickness max(1, int(trajectory_thickness * (i / len(trajectory))))
Segments(trajectory, thickness) ==
    [i \in 1..(Len(trajectory) - 1) |->
        [from |-> trajectory[i], to |-> trajectory[i + 1],
         thickness |-> PyMax(1, (thickness * i) \div Len(trajectory))]]

\* Lines 104-106: a filled circle on every 5th point, of radius
\* max(1, int(3 * (i / len(trajectory)))) for the i-th marker (from 0); i
\* counts the markers, len(trajectory) the visible points.
Dots(trajectory) ==
    [k \in 1..((Len(trajectory) + DotStep - 1) \div DotStep) |->
        [at |-> trajectory[DotStep * (k - 1) + 1],
         radius |-> PyMax(1, (DotScale * (k - 1)) \div Len(trajectory))]]

\* Lines 93-106 for the visible part of the trajectory: the points used, the
\* lines and the circles drawn
TrajectoryPrim(id, color, trajectory, thickness) ==
    [kind |-> "trajectory", id |-> id, color |-> color, points |-> trajectory,
     segments |-> Segments(trajectory, thickness), dots |-> Dots(trajectory)]

\* What the body of the loop over tracked_objects draws for one object
ObjectPrims(viz, obj) ==
    LET color == obj.id % NumColors IN
    (IF viz.show_bbox
     THEN <<[kind |-> "rectangle", id |-> obj.id, color |-> color, at |-> obj.bbox]>>
     ELSE <<>>)
    \o (IF viz.show_id
        THEN <<[kind |-> "text", id |-> obj.id, color |-> color,
                at |-> <<obj.center[1] - 20, obj.center[2] - 10>>]>>
        ELSE <<>>)
    \o (IF viz.show_trajectory /\ Len(obj.trajectory) > 1
        THEN <<TrajectoryPrim(obj.id, color,
                              LastN(obj.trajectory, viz.trajectory_length),
                              viz.trajectory_thickness)>>
        ELSE <<>>)

RECURSIVE DrawObjects(_, _)
DrawObjects(viz, objs) ==
    IF objs = <<>> THEN <<>>
    ELSE ObjectPrims(viz, objs[1]) \o DrawObjects(viz, Tail(objs))

\* The refresh condition as it would be if every overlay call recomputed.
NeedsRefreshAlways(viz, count) == TRUE

\* self._heatmap_cache is None or self._frame_count % self.heatmap_update_interval == 0
NeedsRefresh(viz, count) ==
    IsNone(viz.heatmap_cache) \/ count % viz.heatmap_update_interval = 0

\* Line 55: the cache after the refresh, when there is one
Refill(viz, shape, all_trajectories, refresh) ==
    IF refresh THEN Some(CreateHeatmap(shape, Get(all_trajectories)))
    ELSE viz.heatmap_cache

\* Lines 60-62: the cache resized to the frame when their sizes differ
Fit(cache, shape) ==
    IF Get(cache).shape # shape THEN Some(Resize(Get(cache), shape)) ELSE cache

\* The order as it would be if the objects were drawn before the blend.
DrawThenBlend(h0, viz, tracked_objects, overlay, fitted) ==
    IF overlay
    THEN AddWeighted(Paint(h0, DrawObjects(viz, tracked_objects)), Get(fitted),
                     viz.heatmap_alpha)
    ELSE Paint(h0, DrawObjects(viz, tracked_objects))

\* Lines 64-106: the blend of the fitted cache, then the loop that draws the
\* objects on what the blend returned.
BlendThenDraw(h0, viz, tracked_objects, overlay, fitted) ==
    Paint(IF overlay THEN AddWeighted(h0, Get(fitted), viz.heatmap_alpha) ELSE h0,
          DrawObjects(viz, tracked_objects))

\* Lines 46 and 64-108 for the cache fitted: the copy, the blend and the
\* drawing of the objects.  cv2.addWeighted raises cv2.error for a cache
\* that is not a 3-channel image.
DrawBlended(viz, frame, tracked_objects, overlay, count, refresh, fitted) ==
    LET viz1 == [viz EXCEPT !.frame_count = count, !.heatmap_cache = fitted]
        h0   == FrameCopy(frame)
        h2   == BlendThenDraw(h0, viz, tracked_objects, overlay, fitted)
    IN IF overlay /\ Get(fitted).channels # 3
       THEN [viz |-> viz1, frame |-> frame, returned |-> "none",
             input |-> Get(h0.bufs.frame), refreshed |-> refresh,
             overlay |-> overlay, exc |-> Some("cv2.error")]
       ELSE [viz |-> viz1, frame |-> Get(h2.bufs[h2.vis]), returned |-> h2.vis,
             input |-> Get(h2.bufs.frame), refreshed |-> refresh,
             overlay |-> overlay, exc |-> None]

\* Lines 49-55 for an overlay call whose number is count
DrawCounted(viz, frame, tracked_objects, all_trajectories, overlay, count) ==
    DrawBlended(viz, frame, tracked_objects, overlay, count,
                overlay /\ NeedsRefresh(viz, count),
                IF overlay
                THEN Fit(Refill(viz, frame.shape, all_trajectories,
                                NeedsRefresh(viz, count)), frame.shape)
                ELSE viz.heatmap_cache)

\* draw_frame(frame, tracked_objects, all_trajectories): the visualizer after
\* the call, the array returned and which one it is, the caller's array
\* after the call, whether the heatmap was recomputed, and the exception raised.
DrawFrame(viz, frame, tracked_objects, all_trajectories) ==
    DrawCounted(viz, frame, tracked_objects, all_trajectories,
                viz.show_heatmap /\ Truthy(all_trajectories),
                IF viz.show_heatmap /\ Truthy(all_trajectories)
                THEN viz.frame_count + 1 ELSE viz.frame_count)

(***************************************************************************)
(* cv2.VideoCapture as the sources use it, and the two sources' methods    *)
(* (src/src/sources/video.py, src/src/sources/webcam.py).  A capture's     *)
(* numeric properties are floats; the model holds them in hundredths.      *)
(***************************************************************************)
\* Python's int() of a float held in hundredths: truncation toward zero.
PyInt(x) == IF x >= 0 THEN x \div 100 ELSE -((-x) \div 100)

\* What a failed cv2 read leaves in the frame slot besides None.
Garbage == [id |-> -1, shape |-> <<0, 0>>, heat |-> None, objs |-> <<>>, marks |-> <<>>]

\* An opened capture that will deliver `left` frames; releases counts the
\* cap.release() calls made on it.
Capture(width, height, fps, count, left) ==
    [opened |-> TRUE, width |-> width, height |-> height, fps |-> fps,
     frame_count |-> count, pos |-> 0, left |-> left, releases |-> 0]

\* cap.get(prop): 0 once the capture is released
CapGet(c, prop) == IF c.opened THEN c[prop] ELSE 0

\* cap.read(): the outcomes cv2 may produce and the capture afterwards
CapRead(c) ==
    IF c.opened /\ c.left > 0
    THEN {[ret |-> TRUE,
           frame |-> Some(RawFrame(c.pos, <<PyInt(c.height), PyInt(c.width)>>)),
           cap |-> [c EXCEPT !.left = @ - 1, !.pos = @ + 1]]}
    ELSE {[ret |-> FALSE, frame |-> f, cap |-> c] : f \in {None, Some(Garbage)}}

\* cap.release()
CapRelease(c) == [c EXCEPT !.opened = FALSE, !.releases = @ + 1]

\* read as it would be if it passed cv2's frame slot through.
SourceReadPassThrough(raw) == [ret |-> raw.ret, frame |-> raw.frame]

\* VideoFileSource.read / WebcamSource.read on cv2's answer raw
SourceRead(raw) == [ret |-> raw.ret, frame |-> IF raw.ret THEN raw.frame ELSE None]

\* VideoFileSource.get_properties / WebcamSource.get_properties
FileProperties(c) ==
    [width |-> PyInt(CapGet(c, "width")), height |-> PyInt(CapGet(c, "height")),
     fps |-> PyInt(CapGet(c, "fps")),
     frame_count |-> PyInt(CapGet(c, "frame_count")),
     current_frame |-> CapGet(c, "pos"), source_type |-> "file"]

WebcamProperties(c) ==
    [width |-> PyInt(CapGet(c, "width")), height |-> PyInt(CapGet(c, "height")),
     fps |-> IF PyInt(CapGet(c, "fps")) # 0 THEN PyInt(CapGet(c, "fps")) ELSE 30,
     frame_count |-> -1,
     current_frame |-> CapGet(c, "pos"), source_type |-> "webcam"]

\* A VideoSource of another kind, whose properties carry no frame_count.
OtherProperties(c) ==
    [width |-> PyInt(CapGet(c, "width")), height |-> PyInt(CapGet(c, "height")),
     fps |-> PyInt(CapGet(c, "fps"))]

GetProperties(kind, c) ==
    CASE kind = "file"   -> FileProperties(c)
      [] kind = "webcam" -> WebcamProperties(c)
      [] OTHER           -> OtherProperties(c)

\* is_open: `self.cap is not None and self.cap.isOpened()`
IsOpen(c) == ~IsNone(c) /\ Get(c).opened

\* release as it would be if it only dropped the capture it had never opened.
SourceReleaseUnlessOpen(c) == IF ~IsNone(c) /\ ~Get(c).opened THEN Some(CapRelease(Get(c))) ELSE c

\* release: `if self.cap is not None: self.cap.release()`
SourceRelease(c) == IF ~IsNone(c) THEN Some(CapRelease(Get(c))) ELSE c

\* __exit__ as it would be if it ended with `return True`.
ContextExitSwallowing(c, exc) == [cap |-> SourceRelease(c), propagates |-> None]

\* VideoSource.__exit__(exc_type, exc_val, exc_tb): releases and returns
\* None, so the exception of the block (if any) goes on.
ContextExit(c, exc) == [cap |-> SourceRelease(c), propagates |-> exc]

\* The constructor as it would be without the check of the path.
ConstructNoPathCheck(kind, exists, opens, c) ==
    IF ~opens
    THEN [obj |-> None, cap |-> None, exc |-> Some("RuntimeError"), captures |-> 1]
    ELSE [obj |-> Some([kind |-> kind]), cap |-> Some(c), exc |-> None, captures |-> 1]

\* VideoFileSource.__init__ / WebcamSource.__init__: exists says whether the
\* path is there (a file source only), opens whether cv2 opens the capture c.
\* captures counts the cv2.VideoCapture objects the constructor created.
Construct(kind, exists, opens, c) ==
    IF kind = "file" /\ ~exists
    THEN [obj |-> None, cap |-> None, exc |-> Some("FileNotFoundError"), captures |-> 0]
    ELSE IF ~opens
    THEN [obj |-> None, cap |-> None, exc |-> Some("RuntimeError"), captures |-> 1]
    ELSE [obj |-> Some([kind |-> kind]), cap |-> Some(c), exc |-> None, captures |-> 1]

(***************************************************************************)
(* TrackingPipeline.process_frame (src/src/processors/pipeline.py).        *)
(***************************************************************************)
\* A registered post-processor p, called on a frame: it leaves its marker on
\* the frame it was given and returns that frame.
RunProcessor(p, frame) == [frame EXCEPT !.marks = Append(@, p)]

\* Where a collaborator may raise during one process_frame call: nowhere, in
\* the detector, in the tracker, in the renderer, or in the i-th processor.
Faults(procs) ==
    {<<"none", 0>>, <<"detect", 0>>, <<"update", 0>>, <<"draw", 0>>}
        \cup {<<"processor", i>> : i \in 1..Len(procs)}

\* The loop as it would be if every processor were handed the renderer's frame
\* instead of its predecessor's.
RECURSIVE ProcessorLoopUnchained(_, _, _, _, _, _)
ProcessorLoopUnchained(procs, i, frame, context, failAt, log) ==
    IF i > Len(procs) THEN [calls |-> log, frame |-> frame, raised |-> FALSE]
    ELSE LET call == [op |-> "processor", processor |-> procs[i], index |-> i,
                      frame |-> [frame EXCEPT !.marks = <<>>], context |-> context]
         IN IF i = failAt
            THEN [calls |-> Append(log, call), frame |-> frame, raised |-> TRUE]
            ELSE ProcessorLoopUnchained(procs, i + 1,
                     RunProcessor(procs[i], [frame EXCEPT !.marks = <<>>]), context,
                     failAt, Append(log, call))

\* The loop over self.frame_processors from position i on: the calls made, the
\* frame reached, and whether processor number failAt raised.
RECURSIVE ProcessorLoop(_, _, _, _, _, _)
ProcessorLoop(procs, i, frame, context, failAt, log) ==
    IF i > Len(procs) THEN [calls |-> log, frame |-> frame, raised |-> FALSE]
    ELSE LET call == [op |-> "processor", processor |-> procs[i], index |-> i,
                      frame |-> frame, context |-> context]
         IN IF i = failAt
            THEN [calls |-> Append(log, call), frame |-> frame, raised |-> TRUE]
            ELSE ProcessorLoop(procs, i + 1, RunProcessor(procs[i], frame), context,
                               failAt, Append(log, call))

\* process_frame(frame, metadata) on a pipeline whose state is (procs, store,
\* viz), when the detector answers detections, ByteTrack answers byteOut and
\* fault says which collaborator raises.
ProcessFrame(procs, store, viz, frame, metadata, detections, byteOut, fault) ==
    LET md       == IF IsNone(metadata) THEN [k \in {} |-> 0] ELSE Get(metadata)
        cDetect  == [op |-> "detect", frame |-> frame]
        shape    == <<frame.shape[1], frame.shape[2]>>
        cUpdate  == [op |-> "update", detections |-> detections, frame_shape |-> shape]
        upd      == TrackerUpdate(store, detections, byteOut)
        cDraw    == [op |-> "draw_frame", frame |-> frame,
                     tracked_objects |-> upd.objects, all_trajectories |-> None]
        drawn    == DrawFrame(viz, frame, upd.objects, None)
        context  == [detections |-> detections, tracked_objects |-> upd.objects,
                     metadata |-> md]
        loop     == ProcessorLoop(procs, 1, drawn.frame, context,
                                  IF fault[1] = "processor" THEN fault[2] ELSE 0, <<>>)
        early(log, exc) ==
            [calls |-> log, tracks |-> store, viz |-> viz, exc |-> Some(exc),
             tracked |-> None, rendered |-> None, result |-> None]
    IN CASE fault[1] = "detect" -> early(<<cDetect>>, "detector")
         [] fault[1] = "update" -> early(<<cDetect, cUpdate>>, "tracker")
         [] fault[1] = "draw"   ->
                [calls |-> <<cDetect, cUpdate, cDraw>>, tracks |-> upd.tracks,
                 viz |-> viz, exc |-> Some("renderer"),
                 tracked |-> Some(upd.objects), rendered |-> None, result |-> None]
         [] loop.raised ->
                [calls |-> <<cDetect, cUpdate, cDraw>> \o loop.calls,
                 tracks |-> upd.tracks, viz |-> drawn.viz, exc |-> Some("processor"),
                 tracked |-> Some(upd.objects), rendered |-> Some(drawn.frame),
                 result |-> None]
         [] OTHER ->
                [calls |-> <<cDetect, cUpdate, cDraw>> \o loop.calls,
                 tracks |-> upd.tracks, viz |-> drawn.viz, exc |-> None,
                 tracked |-> Some(upd.objects), rendered |-> Some(drawn.frame),
                 result |-> Some([frame |-> loop.frame, detections |-> detections,
                                  tracked_objects |-> upd.objects, metadata |-> md])]

\* What is kept of one process_frame call: the processors registered when it
\* was made, its arguments, what the detector
\* and the tracker answered, what the renderer returned, the calls it made
\* and what it returned or raised.
FrameRecord(procs, frame, metadata, detections, r) ==
    Some([processors |-> procs,
          frame |-> frame, metadata |-> metadata, detections |-> detections,
          tracked |-> r.tracked, rendered |-> r.rendered, store |-> r.tracks,
          calls |-> r.calls, result |-> r.result, exc |-> r.exc])

(***************************************************************************)
(* The pipeline used frame by frame: add_frame_processor and process_frame *)
(* called directly (as cli.process_webcam and the tests do).               *)
(***************************************************************************)
\* TrajectoryVisualizer.__init__: the heatmap fields
NewVisualizer(show_heatmap) ==
    [trajectory_length |-> TrajectoryLength,
     trajectory_thickness |-> TrajectoryThickness,
     show_bbox |-> TRUE, show_id |-> TRUE, show_trajectory |-> TRUE,
     show_heatmap |-> show_heatmap, heatmap_alpha |-> 600,
     heatmap_update_interval |-> 10, heatmap_cache |-> None, frame_count |-> 0]

IdleVideo ==
    /\ pc = "idle" /\ args = None /\ source = None /\ props = None /\ out = None
    /\ frame_count = 0 /\ last_read = None /\ vis_frame = None /\ pending = None
    /\ summary = None

IdleSource ==
    /\ src_obj = None /\ cap = None /\ src_log = <<>> /\ scope = "none"
    /\ src_exc = None

\* TrackingPipeline.__init__ with a fresh tracker and visualizer
NewPipeline(show_heatmap) ==
    /\ frame_processors = <<>>
    /\ tracks = EmptyStore
    /\ visualizer = NewVisualizer(show_heatmap)

InitFrame == /\ \E h \in BOOLEAN : NewPipeline(h)
             /\ calls = <<>> /\ frame_result = None /\ direct_calls = 0
             /\ IdleVideo /\ IdleSource

\* TrackingPipeline.add_frame_processor
AddFrameProcessor(p) ==
    /\ pc = "idle"
    /\ Len(frame_processors) < MaxProcs
    /\ frame_processors' = Append(frame_processors, p)
    /\ UNCHANGED <<tracks, visualizer, calls, frame_result, direct_calls>>
    /\ UNCHANGED <<videoVars, srcVars>>

\* The inputs of one process_frame call: what the detector and ByteTrack
\* answer and which collaborator raises. ByteTrack is asked only for a
\* non-empty detection list, and only a call that is made can raise.
FrameInputs(procs) ==
    {i \in [detections : DetectionLists,
            byteOut : UNION {ByteOutputs(d) : d \in DetectionLists \ {<<>>}},
            fault : Faults(procs)] :
        /\ IF i.detections = <<>> \/ i.fault[1] \in {"detect", "update"}
           THEN i.byteOut = <<>>
           ELSE i.byteOut \in ByteOutputs(i.detections)
        /\ i.fault[1] = "detect" => i.detections = <<>>
        /\ i.fault[1] = "update" => i.detections # <<>>}

\* A caller's process_frame(frame, metadata)
CallProcessFrame ==
    /\ pc = "idle"
    /\ direct_calls < MaxDirect
    /\ \E shape \in Shapes,
          metadata \in {None, Some([frame_number |-> direct_calls])},
          i \in FrameInputs(frame_processors) :
          LET frame == RawFrame(direct_calls, shape)
              r == ProcessFrame(frame_processors, tracks, visualizer, frame, metadata,
                                i.detections, i.byteOut, i.fault)
          IN /\ tracks' = r.tracks
             /\ visualizer' = r.viz
             /\ calls' = r.calls
             /\ frame_result' = FrameRecord(frame_processors, frame, metadata, i.detections, r)
    /\ direct_calls' = direct_calls + 1
    /\ UNCHANGED frame_processors
    /\ UNCHANGED <<videoVars, srcVars>>

NextFrame ==
    \/ \E p \in Procs : AddFrameProcessor(p)
    \/ CallProcessFrame

SpecFrame == InitFrame /\ [][NextFrame]_vars

(***************************************************************************)
(* The visualizer and the tracker used directly, as a caller holding the   *)
(* pipeline's collaborators may: tracker.update, the visualizer's methods  *)
(* and pipeline.generate_heatmap, in any order.  frame_result is the last  *)
(* call made and direct_calls counts the calls.                            *)
(***************************************************************************)
MaxVisOps == 2      \* calls made on the tracker and the visualizer

VisShapes    == {<<2, 3>>, <<2, 2>>}        \* (height, width) of frames and heatmaps
Intervals    == {1, 2, 3}                   \* heatmap_update_interval
Alphas       == {-500, 0, 300, 1000, 1500}  \* arguments of set_heatmap_alpha
DecayFactors == {0, 950}                    \* decay_factor: 0 and the default 0.95

\* A store the tracker holds after one update, and stores a caller may hand
\* to create_heatmap: two points of one identity; points on every pixel of
\* the smaller shape
OnePointStore == StoreAppend(EmptyStore, 1, Center(<<0, 0, 2, 2>>))
TwoPointStore == StoreAppend(OnePointStore, 1, Center(<<1, 1, 4, 3>>))
CoveringStore == StoreAppend(StoreAppend(EmptyStore, 1, <<0, 0>>), 1, <<1, 1>>)

\* TrackingPipeline.generate_heatmap as it would be if it took the cached
\* render when there is one.
GenerateHeatmapFromCache(store, viz, shape) ==
    [image  |-> IF IsNone(viz.heatmap_cache)
                THEN CreateHeatmap(shape, GetAllTrajectories(store))
                ELSE Get(viz.heatmap_cache),
     tracks |-> store, viz |-> viz]

\* TrackingPipeline.generate_heatmap as it would be if rendering consumed
\* the trajectories.
GenerateHeatmapConsuming(store, viz, shape) ==
    [image  |-> CreateHeatmap(shape, GetAllTrajectories(store)),
     tracks |-> [id \in DOMAIN store |-> <<>>], viz |-> viz]

\* TrackingPipeline.generate_heatmap(frame_shape): the image, and the
\* tracker's store and the visualizer as the call leaves them
GenerateHeatmap(store, viz, shape) ==
    [image  |-> CreateHeatmap(shape, GetAllTrajectories(store)),
     tracks |-> store, viz |-> viz]

\* The tracked-object lists a caller hands to draw_frame: none, or the
\* object update reports for one stored identity.
TrackedInputs(store) ==
    {<<>>} \cup {<<[id |-> id, bbox |-> <<0, 0, 2, 2>>,
                    center |-> store[id][Len(store[id])],
                    trajectory |-> store[id]]>> : id \in DOMAIN store}

InitVis ==
    /\ frame_processors = <<>>
    /\ tracks \in {EmptyStore, OnePointStore}
    /\ \E h \in BOOLEAN, n \in Intervals :
          visualizer = [NewVisualizer(h) EXCEPT !.heatmap_update_interval = n]
    /\ calls = <<>> /\ frame_result = None /\ direct_calls = 0
    /\ IdleVideo /\ IdleSource

VisStep == /\ direct_calls < MaxVisOps
           /\ direct_calls' = direct_calls + 1
           /\ UNCHANGED <<frame_processors, calls, videoVars, srcVars>>

\* tracker.update(detections, frame_shape)
VisUpdate ==
    /\ VisStep
    /\ \E d \in {<<>>} \cup {<<Detection(b)>> : b \in Boxes} :
       \E byteOut \in IF d = <<>> THEN {<<>>} ELSE ByteOutputs(d) :
          LET r == TrackerUpdate(tracks, d, byteOut)
          IN /\ tracks' = r.tracks
             /\ frame_result' = Some([op |-> "update", detections |-> d,
                                      objects |-> r.objects])
    /\ UNCHANGED visualizer

\* visualizer.draw_frame(frame, tracked_objects, all_trajectories)
VisDrawFrame ==
    /\ VisStep
    /\ \E shape \in VisShapes, objs \in TrackedInputs(tracks),
          traj \in {None, Some(GetAllTrajectories(tracks))} :
          LET frame == RawFrame(direct_calls, shape)
              r     == DrawFrame(visualizer, frame, objs, traj)
              call  == [op |-> "draw_frame", before |-> visualizer, frame |-> frame,
                        tracked_objects |-> objs, all_trajectories |-> traj,
                        overlay |-> r.overlay, refreshed |-> r.refreshed,
                        after |-> r.viz, input |-> r.input,
                        returned |-> r.returned,
                        rendered |-> IF IsNone(r.exc) THEN Some(r.frame) ELSE None,
                        exc |-> r.exc]
          IN /\ visualizer' = r.viz
             /\ frame_result' = Some(call)
    /\ UNCHANGED tracks

\* visualizer.create_heatmap(frame_shape, all_trajectories)
VisCreateHeatmap ==
    /\ VisStep
    /\ \E shape \in VisShapes,
          store \in {EmptyStore, CoveringStore, GetAllTrajectories(tracks)} :
          frame_result' = Some([op |-> "create_heatmap", shape |-> shape,
                                store |-> store,
                                image |-> CreateHeatmap(shape, store)])
    /\ UNCHANGED <<tracks, visualizer>>

\* visualizer.create_realtime_heatmap(frame_shape, current_trajectories, decay_factor)
VisCreateRealtimeHeatmap ==
    /\ VisStep
    /\ \E shape \in VisShapes, decay \in DecayFactors :
          LET store == GetAllTrajectories(tracks)
              r     == CreateRealtimeHeatmap(visualizer, shape, store, decay)
              call  == [op |-> "create_realtime_heatmap", before |-> visualizer,
                        shape |-> shape, store |-> store, decay |-> decay,
                        combined |-> r.combined, after |-> r.viz,
                        image |-> r.image, exc |-> r.exc]
          IN /\ visualizer' = r.viz
             /\ frame_result' = Some(call)
    /\ UNCHANGED tracks

\* visualizer.toggle_heatmap()
VisToggleHeatmap ==
    /\ VisStep
    /\ visualizer' = ToggleHeatmap(visualizer)
    /\ LET call == [op |-> "toggle_heatmap", before |-> visualizer]
       IN frame_result' = Some(call)
    /\ UNCHANGED tracks

\* visualizer.set_heatmap_alpha(alpha)
VisSetHeatmapAlpha ==
    /\ VisStep
    /\ \E a \in Alphas :
          /\ visualizer' = SetHeatmapAlpha(visualizer, a)
          /\ LET call == [op |-> "set_heatmap_alpha", before |-> visualizer,
                          alpha |-> a]
             IN frame_result' = Some(call)
    /\ UNCHANGED tracks

\* visualizer.reset_heatmap_cache()
VisResetHeatmapCache ==
    /\ VisStep
    /\ visualizer' = ResetHeatmapCache(visualizer)
    /\ LET call == [op |-> "reset_heatmap_cache", before |-> visualizer]
       IN frame_result' = Some(call)
    /\ UNCHANGED tracks

\* pipeline.generate_heatmap(frame_shape)
VisGenerateHeatmap ==
    /\ VisStep
    /\ \E shape \in VisShapes :
          LET r == GenerateHeatmap(tracks, visualizer, shape)
          IN /\ tracks' = r.tracks
             /\ visualizer' = r.viz
             /\ frame_result' = Some([op |-> "generate_heatmap", shape |-> shape,
                                      store |-> tracks, before |-> visualizer,
                                      image |-> r.image])

NextVis ==
    \/ VisUpdate
    \/ VisDrawFrame
    \/ VisCreateHeatmap
    \/ VisCreateRealtimeHeatmap
    \/ VisToggleHeatmap
    \/ VisSetHeatmapAlpha
    \/ VisResetHeatmapCache
    \/ VisGenerateHeatmap

SpecVis == InitVis /\ [][NextVis]_vars

(***************************************************************************)
(* One visualizer over a sequence of draw_frame calls and nothing else:    *)
(* calls is the list of the calls made.                                    *)
(***************************************************************************)
MaxDraws == 3       \* draw_frame calls made on one visualizer

InitDraw ==
    /\ frame_processors = <<>>
    /\ tracks = TwoPointStore
    /\ \E b \in BOOLEAN, i \in BOOLEAN, t \in BOOLEAN :
          \/ visualizer = [NewVisualizer(FALSE) EXCEPT !.show_bbox = b, !.show_id = i,
                                                       !.show_trajectory = t]
          \/ \E n \in Intervals :
                visualizer = [NewVisualizer(TRUE) EXCEPT !.show_bbox = b, !.show_id = i,
                                                        !.show_trajectory = t,
                                                        !.heatmap_update_interval = n]
    /\ calls = <<>> /\ frame_result = None /\ direct_calls = 0
    /\ IdleVideo /\ IdleSource

\* What is kept of one draw_frame call on the visualizer viz that gave r
DrawRecord(viz, frame, tracked_objects, r) ==
    [op |-> "draw_frame", before |-> viz, frame |-> frame,
     tracked_objects |-> tracked_objects,
     overlay |-> r.overlay, refreshed |-> r.refreshed,
     input |-> r.input, returned |-> r.returned,
     rendered |-> IF IsNone(r.exc) THEN Some(r.frame) ELSE None,
     exc |-> r.exc]

\* The call made and the visualizer it leaves
DrawDone(frame, tracked_objects, r) ==
    /\ visualizer' = r.viz
    /\ calls' = Append(calls, DrawRecord(visualizer, frame, tracked_objects, r))

\* visualizer.draw_frame(frame, tracked_objects, all_trajectories)
DrawCall ==
    /\ Len(calls) < MaxDraws
    /\ \E shape \in VisShapes, objs \in TrackedInputs(tracks),
          traj \in {None, Some(GetAllTrajectories(tracks))} :
          DrawDone(RawFrame(Len(calls), shape), objs,
                   DrawFrame(visualizer, RawFrame(Len(calls), shape), objs, traj))
    /\ UNCHANGED <<frame_processors, tracks, frame_result, direct_calls>>
    /\ UNCHANGED <<videoVars, srcVars>>

NextDraw == DrawCall

SpecDraw == InitDraw /\ [][NextDraw]_vars

(***************************************************************************)
(* TrackingPipeline.process_video (src/src/processors/pipeline.py), one    *)
(* call, step by step: pc is the statement the call is about to execute.   *)
(***************************************************************************)
\* The sources handed to process_video: a file whose container reports a
\* frame count, a file for which cv2 reports a negative one (a stream with
\* no duration: cap.get returns what the backend computes, and video.py:49
\* converts it with int() and nothing else), a webcam whose driver reports
\* no fps, and a VideoSource of another kind whose properties carry no
\* frame_count.  Each delivers n frames, then its read fails.
VideoSources ==
    UNION {{[kind |-> "file",   cap |-> Capture(400, 300, 2997, 300, n)],
            [kind |-> "file",   cap |-> Capture(400, 300, 2997, -200, n)],
            [kind |-> "webcam", cap |-> Capture(400, 300, 0, 0, n)],
            [kind |-> "other",  cap |-> Capture(400, 300, 2500, 0, n)]}
           : n \in 0..MaxFrames}

VideoArgs ==
    [output_path : {None, Some("out.mp4")}, show_preview : BOOLEAN,
     progress_callback : BOOLEAN]

\* Python truthiness of an optional string
PathGiven(path) == ~IsNone(path) /\ Get(path) # ""

\* props.get('frame_count', -1)
TotalFrames(p) == IF "frame_count" \in DOMAIN p THEN p.frame_count ELSE -1

\* The writer as it would be opened with the frame shape (height, width).
VideoWriterByShape(path, fps, size) == [path |-> path, fps |-> fps, size |-> <<size[2], size[1]>>]

\* cv2.VideoWriter(output_path, fourcc, fps, (width, height))
VideoWriter(path, fps, size) == [path |-> path, fps |-> fps, size |-> size]

\* Lines 95-106: properties, the optional writer, frame_count = 0
StartVideo ==
    /\ pc = "idle"
    /\ \E s \in VideoSources, a \in VideoArgs :
          LET p == GetProperties(s.kind, s.cap)
              w == VideoWriter(Get(a.output_path), p.fps, <<p.width, p.height>>)
          IN /\ source' = s
             /\ args' = a
             /\ props' = p
             /\ out' = IF PathGiven(a.output_path) THEN Some(w) ELSE None
             /\ calls' = <<[op |-> "get_properties"]>> \o
                          (IF PathGiven(a.output_path)
                           THEN <<[op |-> "VideoWriter", writer |-> w]>> ELSE <<>>)
    /\ frame_count' = 0
    /\ pc' = "read"
    /\ UNCHANGED <<frame_processors, tracks, visualizer, frame_result, direct_calls>>
    /\ UNCHANGED <<last_read, vis_frame, pending, summary>>
    /\ UNCHANGED srcVars

\* What source.read() may answer: a VideoFileSource or WebcamSource wraps
\* cv2's answer; another source is free in what it pairs with a failure.
ReadAnswers(s) ==
    IF s.kind \in {"file", "webcam"}
    THEN {[ret |-> SourceRead(raw).ret, frame |-> SourceRead(raw).frame, cap |-> raw.cap]
            : raw \in CapRead(s.cap)}
    ELSE CapRead(s.cap) \cup
         (IF s.cap.left = 0 THEN {[ret |-> TRUE, frame |-> None, cap |-> s.cap]} ELSE {})

\* `if not ret or frame is None: break`
LoopEnds(ret, frame) == ~ret \/ IsNone(frame)

\* The statement after process_frame's result is taken: write, else preview,
\* else the progress callback and the increment.
AfterProcess == IF ~IsNone(out) THEN "write"
                ELSE IF args.show_preview THEN "preview" ELSE "progress"
AfterWrite   == IF args.show_preview THEN "preview" ELSE "progress"

\* An exception leaves the try block: the finally clause runs next.
Raise(exc) ==
    /\ pending' = Some(exc)
    /\ pc' = "finally"

\* Lines 110-112
ReadFrame ==
    /\ pc = "read"
    /\ \/ \E r \in ReadAnswers(source) :
             /\ source' = [source EXCEPT !.cap = r.cap]
             /\ last_read' = Some([ret |-> r.ret, frame |-> r.frame])
             /\ calls' = Append(calls, [op |-> "read", ret |-> r.ret, frame |-> r.frame])
             /\ pc' = IF LoopEnds(r.ret, r.frame) THEN "finally" ELSE "process"
             /\ UNCHANGED pending
       \/ /\ calls' = Append(calls, [op |-> "read", raised |-> TRUE])
          /\ Raise("source")
          /\ UNCHANGED <<source, last_read>>
    /\ UNCHANGED <<frame_processors, tracks, visualizer, frame_result, direct_calls>>
    /\ UNCHANGED <<args, props, out, frame_count, vis_frame, summary>>
    /\ UNCHANGED srcVars

\* Lines 115-120
ProcessFrameStep ==
    /\ pc = "process"
    /\ \E i \in {j \in FrameInputs(frame_processors) : Len(j.detections) <= 1} :
          LET frame == Get(Get(last_read).frame)
              md == [frame_number |-> frame_count, source_properties |-> props]
              r == ProcessFrame(frame_processors, tracks, visualizer, frame, Some(md),
                                i.detections, i.byteOut, i.fault)
          IN /\ tracks' = r.tracks
             /\ visualizer' = r.viz
             /\ calls' = (calls \o r.calls) \o
                          (IF IsNone(r.exc)
                           THEN <<[op |-> "process_frame", frame |-> Get(r.result).frame]>>
                           ELSE <<>>)
             /\ frame_result' = FrameRecord(frame_processors, frame, Some(md), i.detections, r)
             /\ IF IsNone(r.exc)
                THEN /\ vis_frame' = Some(Get(r.result).frame)
                     /\ pc' = AfterProcess
                     /\ UNCHANGED pending
                ELSE /\ Raise(Get(r.exc))
                     /\ UNCHANGED vis_frame
    /\ UNCHANGED <<frame_processors, direct_calls>>
    /\ UNCHANGED <<args, source, props, out, frame_count, last_read, summary>>
    /\ UNCHANGED srcVars

\* out.write(vis_frame), and whether the writer raised
WriteCall(frame, raised) == [op |-> "write", frame |-> frame, raised |-> raised]

\* Lines 123-124
WriteFrame ==
    /\ pc = "write"
    /\ \/ /\ calls' = Append(calls, WriteCall(Get(vis_frame), FALSE))
          /\ pc' = AfterWrite
          /\ UNCHANGED pending
       \/ /\ calls' = Append(calls, WriteCall(Get(vis_frame), TRUE))
          /\ Raise("writer")
    /\ UNCHANGED <<frame_processors, tracks, visualizer, frame_result, direct_calls>>
    /\ UNCHANGED <<args, source, props, out, frame_count, last_read, vis_frame, summary>>
    /\ UNCHANGED srcVars

\* What cv2.waitKey(1) may answer: no key, 'q', 'q' with a modifier bit set.
Keys == {-1, 113, 369}
OrdQ == 113

\* `cv2.waitKey(1) & 0xFF == ord('q')`
QuitKey(key) == key % 256 = OrdQ

\* Lines 127-130
Preview ==
    /\ pc = "preview"
    /\ \/ \E key \in Keys :
             /\ calls' = calls \o <<[op |-> "imshow", frame |-> Get(vis_frame)],
                                    [op |-> "waitKey", quit |-> QuitKey(key)]>>
             /\ pc' = IF QuitKey(key) THEN "finally" ELSE "progress"
             /\ UNCHANGED pending
       \/ /\ calls' = Append(calls, [op |-> "imshow", raised |-> TRUE])
          /\ Raise("preview")
    /\ UNCHANGED <<frame_processors, tracks, visualizer, frame_result, direct_calls>>
    /\ UNCHANGED <<args, source, props, out, frame_count, last_read, vis_frame, summary>>
    /\ UNCHANGED srcVars

\* The callback as it would be called after the increment.
ProgressCallAfterIncrement(count, p) ==
    [op |-> "progress_callback", frame_num |-> count + 1,
     total_frames |-> IF "frame_count" \in DOMAIN p THEN p.frame_count ELSE -1]

\* progress_callback(frame_count, total_frames)
ProgressCall(count, p) ==
    [op |-> "progress_callback", frame_num |-> count, total_frames |-> TotalFrames(p)]

\* Lines 133-136
Progress ==
    /\ pc = "progress"
    /\ \/ /\ calls' = IF args.progress_callback
                       THEN Append(calls, ProgressCall(frame_count, props))
                       ELSE calls
          /\ frame_count' = frame_count + 1
          /\ pc' = "read"
          /\ UNCHANGED pending
       \/ /\ args.progress_callback
          /\ calls' = Append(calls, [op |-> "progress_callback", raised |-> TRUE])
          /\ Raise("callback")
          /\ UNCHANGED frame_count
    /\ UNCHANGED <<frame_processors, tracks, visualizer, frame_result, direct_calls>>
    /\ UNCHANGED <<args, source, props, out, last_read, vis_frame, summary>>
    /\ UNCHANGED srcVars

\* The finally clause as it would be with `elif show_preview`.
CleanupElif(writer, show_preview) ==
    IF ~IsNone(writer) THEN <<[op |-> "release"]>>
    ELSE IF show_preview THEN <<[op |-> "destroyAllWindows"]>> ELSE <<>>

\* The calls of the finally clause, lines 138-142
Cleanup(writer, show_preview) ==
    (IF ~IsNone(writer) THEN <<[op |-> "release"]>> ELSE <<>>) \o
    (IF show_preview THEN <<[op |-> "destroyAllWindows"]>> ELSE <<>>)

\* The number of points of a store
RECURSIVE PointCount(_, _)
PointCount(store, ids) ==
    IF ids = {} THEN 0
    ELSE LET id == CHOOSE i \in ids : TRUE
         IN Len(store[id]) + PointCount(store, ids \ {id})

\* The summary as it would be if it counted the recorded sightings.
SummaryCountingPoints(count, store, p) ==
    [frames_processed |-> count,
     total_objects_tracked |-> PointCount(store, DOMAIN store),
     trajectories |-> GetAllTrajectories(store),
     source_properties |-> p]

\* Lines 147-152
Summary(count, store, p) ==
    [frames_processed |-> count,
     total_objects_tracked |-> Cardinality(DOMAIN GetAllTrajectories(store)),
     trajectories |-> GetAllTrajectories(store),
     source_properties |-> p]

\* Lines 138-152: the finally clause, then either the exception goes on to
\* the caller or the statistics are gathered and returned.
Finally ==
    /\ pc = "finally"
    /\ IF IsNone(pending)
       THEN /\ calls' = (calls \o Cleanup(out, args.show_preview))
                            \o <<[op |-> "get_all_trajectories"]>>
            /\ summary' = Some(Summary(frame_count, tracks, props))
            /\ pc' = "done"
       ELSE /\ calls' = calls \o Cleanup(out, args.show_preview)
            /\ pc' = "raised"
            /\ UNCHANGED summary
    /\ UNCHANGED <<frame_processors, tracks, visualizer, frame_result, direct_calls>>
    /\ UNCHANGED <<args, source, props, out, frame_count, last_read, vis_frame, pending>>
    /\ UNCHANGED srcVars

(***************************************************************************)
(* A source used on its own: constructed, read, asked for its properties,  *)
(* released, with or without a with-block around its use.                  *)
(***************************************************************************)
SourceOps == Len(SelectSeq(src_log, LAMBDA c : c.op \in {"read", "release", "get_properties"}))

InitSource ==
    /\ NewPipeline(FALSE) /\ calls = <<>> /\ frame_result = None /\ direct_calls = 0
    /\ IdleVideo /\ IdleSource

\* VideoFileSource(path) or WebcamSource(index)
ConstructSource ==
    /\ scope = "none"
    /\ \E kind \in {"file", "webcam"}, exists \in BOOLEAN, opens \in BOOLEAN,
          n \in 0..MaxFrames, count \in {300, -200} :
          LET r == Construct(kind, exists, opens, Capture(400, 300, 2997, count, n))
          IN /\ src_obj' = r.obj
             /\ cap' = r.cap
             /\ src_exc' = r.exc
             /\ src_log' = <<[op |-> "construct", kind |-> kind, exists |-> exists,
                               opens |-> opens, captures |-> r.captures]>>
             /\ scope' = IF IsNone(r.exc) THEN "open" ELSE "failed"
    /\ UNCHANGED <<pipeVars, videoVars>>

\* `with source:` is entered: __enter__ returns the source
EnterWith ==
    /\ scope = "open"
    /\ src_log = <<src_log[1]>>
    /\ scope' = "inside"
    /\ src_log' = Append(src_log, [op |-> "__enter__"])
    /\ UNCHANGED <<src_obj, cap, src_exc>>
    /\ UNCHANGED <<pipeVars, videoVars>>

\* source.read(): cv2 answers, or raises
ReadSource ==
    /\ scope \in {"open", "inside", "left"}
    /\ SourceOps < MaxSrcOps
    /\ \/ \E raw \in CapRead(Get(cap)) :
             /\ cap' = Some(raw.cap)
             /\ src_log' = Append(src_log, [op |-> "read", raised |-> FALSE,
                                            ret |-> SourceRead(raw).ret,
                                            frame |-> SourceRead(raw).frame])
             /\ src_exc' = None
       \/ /\ src_log' = Append(src_log, [op |-> "read", raised |-> TRUE])
          /\ src_exc' = Some("cv2.error")
          /\ UNCHANGED cap
    /\ UNCHANGED <<src_obj, scope>>
    /\ UNCHANGED <<pipeVars, videoVars>>

\* source.release(), then the caller looks at is_open
ReleaseSource ==
    /\ scope \in {"open", "inside", "left"}
    /\ SourceOps < MaxSrcOps
    /\ cap' = SourceRelease(cap)
    /\ src_log' = Append(src_log, [op |-> "release", raised |-> FALSE,
                                   is_open |-> IsOpen(SourceRelease(cap))])
    /\ src_exc' = None
    /\ UNCHANGED <<src_obj, scope>>
    /\ UNCHANGED <<pipeVars, videoVars>>

\* source.get_properties()
GetSourceProperties ==
    /\ scope \in {"open", "inside", "left"}
    /\ SourceOps < MaxSrcOps
    /\ src_log' = Append(src_log, [op |-> "get_properties",
                                   properties |-> GetProperties(Get(src_obj).kind, Get(cap))])
    /\ src_exc' = None
    /\ UNCHANGED <<src_obj, cap, scope>>
    /\ UNCHANGED <<pipeVars, videoVars>>

\* The with-block ends: normally, by an exception of its body, or by the
\* exception the read just raised.
ExitWith ==
    /\ scope = "inside"
    /\ \E exc \in {None, Some("body error")} \cup
                   (IF src_log[Len(src_log)].op = "read" /\ src_log[Len(src_log)].raised
                    THEN {Some("cv2.error")} ELSE {}) :
          LET r == ContextExit(cap, exc) IN
          /\ cap' = r.cap
          /\ src_exc' = r.propagates
          /\ src_log' = Append(src_log, [op |-> "__exit__", exc |-> exc,
                                         propagated |-> r.propagates,
                                         releases |-> Get(r.cap).releases - Get(cap).releases,
                                         is_open |-> IsOpen(r.cap)])
    /\ scope' = "left"
    /\ UNCHANGED src_obj
    /\ UNCHANGED <<pipeVars, videoVars>>

NextSource ==
    \/ ConstructSource
    \/ EnterWith
    \/ ReadSource
    \/ ReleaseSource
    \/ GetSourceProperties
    \/ ExitWith

SpecSource == InitSource /\ [][NextSource]_vars

(***************************************************************************)
(* The pipeline's tracker over updates and resets (cli.process_webcam,     *)
(* key 'r'), with the two readers of the whole store: the summary          *)
(* process_video returns and generate_heatmap.  calls lists the updates    *)
(* and the resets, frame_result is what the last reader call returned.     *)
(***************************************************************************)
MaxTrackOps == 3    \* updates and resets of one pipeline's tracker

\* ObjectTracker.__init__: self.tracks of the new instance
NewTracker == EmptyStore

\* pipeline.tracker as the reset would leave it if it kept the old instance.
ResetTrackingKeeping(store) == store

\* pipeline.tracker = ObjectTracker(...): the store of the pipeline's tracker
ResetTracking(store) == NewTracker

InitReset ==
    /\ NewPipeline(FALSE)
    /\ calls = <<>> /\ frame_result = None /\ direct_calls = 0
    /\ IdleVideo /\ IdleSource

\* pipeline.tracker.update, as process_frame calls it
TrackUpdate ==
    /\ Len(calls) < MaxTrackOps
    /\ \E d \in DetectionLists :
       \E byteOut \in IF d = <<>> THEN {<<>>} ELSE ByteOutputs(d) :
          LET r == TrackerUpdate(tracks, d, byteOut)
          IN /\ tracks' = r.tracks
             /\ calls' = Append(calls, [op |-> "update", objects |-> r.objects])
    /\ frame_result' = None
    /\ UNCHANGED <<frame_processors, visualizer, direct_calls>>
    /\ UNCHANGED <<videoVars, srcVars>>

\* The caller's reset of tracking
TrackReset ==
    /\ Len(calls) < MaxTrackOps
    /\ tracks' = ResetTracking(tracks)
    /\ calls' = Append(calls, [op |-> "reset"])
    /\ frame_result' = None
    /\ UNCHANGED <<frame_processors, visualizer, direct_calls>>
    /\ UNCHANGED <<videoVars, srcVars>>

\* The trajectories of the summary process_video returns (pipeline.py:144-150)
TrackSummary ==
    /\ frame_result' = Some([op |-> "summary",
                             value |-> Summary(0, tracks, [k \in {} |-> 0]).trajectories])
    /\ UNCHANGED <<frame_processors, tracks, visualizer, calls, direct_calls>>
    /\ UNCHANGED <<videoVars, srcVars>>

\* pipeline.generate_heatmap(frame_shape)
TrackGenerateHeatmap ==
    /\ \E shape \in VisShapes :
          LET r == GenerateHeatmap(tracks, visualizer, shape)
          IN /\ tracks' = r.tracks
             /\ visualizer' = r.viz
             /\ frame_result' = Some([op |-> "generate_heatmap", shape |-> shape,
                                      value |-> r.image])
    /\ UNCHANGED <<frame_processors, calls, direct_calls>>
    /\ UNCHANGED <<videoVars, srcVars>>

NextReset ==
    \/ TrackUpdate
    \/ TrackReset
    \/ TrackSummary
    \/ TrackGenerateHeatmap

SpecReset == InitReset /\ [][NextReset]_vars


(***************************************************************************)
(* One ObjectTracker and a caller that holds the mapping returned by       *)
(* get_all_trajectories.  dict(self.tracks) is a new dict whose values are *)
(* the tracker's own list objects, so frame_result holds the mapping as    *)
(* the store it was copied from (taken), the identities it still has and   *)
(* those of them still bound to the tracker's lists (shared); what the     *)
(* caller reads through it is Held.  calls lists the updates and the       *)
(* caller's operations.                                                    *)
(***************************************************************************)
MaxTrackerOps == 3  \* update calls and caller operations on one tracker

\* The points the caller may append to a list of the returned mapping
CallerPoints == {<<9, 9>>}

\* dict(self.tracks): the returned mapping
Snapshot(store) ==
    [taken |-> GetAllTrajectories(store), keys |-> DOMAIN store,
     shared |-> DOMAIN store]

\* What the returned mapping reads as, the tracker's store being store
Held(snap, store) ==
    [k \in snap.keys |-> IF k \in snap.shared THEN store[k] ELSE snap.taken[k]]

InitTracker ==
    /\ NewPipeline(FALSE)
    /\ calls = <<>> /\ frame_result = None /\ direct_calls = 0
    /\ IdleVideo /\ IdleSource

\* What is kept of one update call
UpdateLogged(store, d, byteOut, r) ==
    /\ tracks' = r.tracks
    /\ calls' = Append(calls, [op |-> "update", before |-> store,
                               detections |-> d, byteOut |-> byteOut,
                               objects |-> r.objects])

\* tracker.update(detections, frame_shape)
TrackerUpdateCall ==
    /\ Len(calls) < MaxTrackerOps
    /\ \E d \in DetectionLists :
       \E byteOut \in IF d = <<>> THEN {<<>>} ELSE ByteOutputs(d) :
          UpdateLogged(tracks, d, byteOut, TrackerUpdate(tracks, d, byteOut))
    /\ UNCHANGED <<frame_processors, visualizer, frame_result, direct_calls>>
    /\ UNCHANGED <<videoVars, srcVars>>

\* returned = tracker.get_all_trajectories()
TrackerGetAll ==
    /\ Len(calls) < MaxTrackerOps
    /\ frame_result' = Some(Snapshot(tracks))
    /\ calls' = Append(calls, [op |-> "get_all_trajectories"])
    /\ UNCHANGED <<frame_processors, tracks, visualizer, direct_calls>>
    /\ UNCHANGED <<videoVars, srcVars>>

\* del returned[k]: a change of the returned dict itself
CallerDelete ==
    /\ Len(calls) < MaxTrackerOps
    /\ ~IsNone(frame_result)
    /\ \E k \in Get(frame_result).keys :
          /\ frame_result' = Some([Get(frame_result) EXCEPT
                                      !.keys = @ \ {k}, !.shared = @ \ {k}])
          /\ calls' = Append(calls, [op |-> "del", id |-> k])
    /\ UNCHANGED <<frame_processors, tracks, visualizer, direct_calls>>
    /\ UNCHANGED <<videoVars, srcVars>>

\* returned[k].append(p): a change of a list the returned dict holds, which
\* is the tracker's list
CallerAppend ==
    /\ Len(calls) < MaxTrackerOps
    /\ ~IsNone(frame_result)
    /\ \E k \in Get(frame_result).shared, p \in CallerPoints :
          /\ tracks' = [tracks EXCEPT ![k] = Append(@, p)]
          /\ calls' = Append(calls, [op |-> "append", id |-> k, point |-> p])
    /\ UNCHANGED <<frame_processors, visualizer, frame_result, direct_calls>>
    /\ UNCHANGED <<videoVars, srcVars>>

NextTracker ==
    \/ TrackerUpdateCall
    \/ TrackerGetAll
    \/ CallerDelete
    \/ CallerAppend

SpecTracker == InitTracker /\ [][NextTracker]_vars


(***************************************************************************)
(* One object followed over many frames by a visualizer constructed with a *)
(* given trajectory_length: each frame the tracker records the object's    *)
(* next center and draw_frame draws what the tracker returned, as          *)
(* process_frame has them do.  frame_result holds the last drawing.        *)
(***************************************************************************)
MaxTrail == 52      \* frames in which the object is followed

\* The values of trajectory_length a visualizer may be constructed with
TrailLengths == {0, 1, 2, 5, TrajectoryLength}

\* The object's box in frame k: it moves one pixel to the right per frame
TrailBox(k) == <<k, 0, k + 2, 2>>

InitTrail ==
    /\ frame_processors = <<>>
    /\ tracks = EmptyStore
    /\ \E n \in TrailLengths :
          visualizer = [NewVisualizer(FALSE) EXCEPT !.trajectory_length = n]
    /\ calls = <<>> /\ frame_result = None /\ direct_calls = 0
    /\ IdleVideo /\ IdleSource

\* The drawing r of the objects the update t returned
TrailDrawn(t, r) ==
    /\ tracks' = t.tracks
    /\ visualizer' = r.viz
    /\ frame_result' = Some([op |-> "draw_frame", before |-> visualizer,
                             tracked_objects |-> t.objects,
                             rendered |-> r.frame])

\* draw_frame of what the update t returned for frame k
TrailDraw(k, t) ==
    TrailDrawn(t, DrawFrame(visualizer, RawFrame(k, <<3, 4>>), t.objects, None))

\* tracker.update, then visualizer.draw_frame, for the next frame
TrailFrame ==
    /\ direct_calls < MaxTrail
    /\ TrailDraw(direct_calls,
                 TrackerUpdate(tracks, <<Detection(TrailBox(direct_calls))>>,
                               <<ByteTrack(1, TrailBox(direct_calls))>>))
    /\ direct_calls' = direct_calls + 1
    /\ UNCHANGED <<frame_processors, calls>>
    /\ UNCHANGED <<videoVars, srcVars>>

NextTrail == TrailFrame

SpecTrail == InitTrail /\ [][NextTrail]_vars


(***************************************************************************)
(* web_app.process_video_file (src/src/web_app.py, lines 50-133): the      *)
(* upload is saved to a temporary file, a pipeline is created, and inside  *)
(* `try: with VideoFileSource(tmp_path) as source:` a writer is opened,    *)
(* the frames are processed and written, the writer is released, the       *)
(* heatmap is generated and saved and the temporary file is deleted;       *)
(* `except Exception` reports the error and returns None.  calls lists the *)
(* calls made, pending is the exception caught, summary the value          *)
(* returned.                                                               *)
(***************************************************************************)
\* The uploads: files cv2 opens, delivering n frames, and one it does not open
WebUploads ==
    {[opens |-> TRUE, cap |-> Capture(400, 300, 2997, 300, n)] : n \in 0..MaxFrames}
        \cup {[opens |-> FALSE, cap |-> Capture(0, 0, 0, 0, 0)]}

InitWeb ==
    /\ NewPipeline(FALSE)
    /\ calls = <<>> /\ frame_result = None /\ direct_calls = 0
    /\ IdleVideo /\ IdleSource

\* An exception leaves the with-block: __exit__ and the except clause are next.
WebRaise(exc) ==
    /\ pending' = Some(exc)
    /\ pc' = "except"

\* Lines 68-82 for the source the constructor c gave
WebOpened(c) ==
    IF IsNone(c.exc)
    THEN /\ source' = Some([kind |-> "file", cap |-> Get(c.cap)])
         /\ props' = Some(GetProperties("file", Get(c.cap)))
         /\ out' = Some(VideoWriter("output/tracked.mp4",
                                    GetProperties("file", Get(c.cap)).fps,
                                    <<GetProperties("file", Get(c.cap)).width,
                                      GetProperties("file", Get(c.cap)).height>>))
         /\ calls' = <<[op |-> "NamedTemporaryFile"], [op |-> "VideoFileSource"],
                       [op |-> "get_properties"], [op |-> "VideoWriter"]>>
         /\ pc' = "read"
         /\ UNCHANGED pending
    ELSE /\ calls' = <<[op |-> "NamedTemporaryFile"], [op |-> "VideoFileSource"]>>
         /\ pending' = c.exc
         /\ pc' = "caught"
         /\ UNCHANGED <<source, props, out>>

\* Lines 53-82: the temporary file, the pipeline, the source, the writer
WebStart ==
    /\ pc = "idle"
    /\ \E u \in WebUploads : WebOpened(Construct("file", TRUE, u.opens, u.cap))
    /\ frame_count' = 0
    /\ args' = Some([tmp_path |-> "tmp.mp4"])
    /\ UNCHANGED <<frame_processors, tracks, visualizer, frame_result, direct_calls>>
    /\ UNCHANGED <<last_read, vis_frame, summary>>
    /\ UNCHANGED srcVars

\* Lines 85-87: `ret, frame = source.read()` and `if not ret: break`
WebRead ==
    /\ pc = "read"
    /\ \E raw \in CapRead(Get(source).cap) :
          /\ source' = Some([Get(source) EXCEPT !.cap = raw.cap])
          /\ last_read' = Some(SourceRead(raw))
          /\ calls' = Append(calls, [op |-> "read", ret |-> raw.ret])
          /\ pc' = IF ~raw.ret THEN "release" ELSE "process"
    /\ UNCHANGED <<frame_processors, tracks, visualizer, frame_result, direct_calls>>
    /\ UNCHANGED <<args, props, out, frame_count, vis_frame, pending, summary>>
    /\ UNCHANGED srcVars

\* Lines 90-95 for what process_frame did (r)
WebProcessed(r) ==
    /\ tracks' = r.tracks
    /\ visualizer' = r.viz
    /\ calls' = Append(calls, [op |-> "process_frame", raised |-> ~IsNone(r.exc)])
    /\ IF IsNone(r.exc)
       THEN /\ vis_frame' = Some(Get(r.result).frame)
            /\ pc' = "write"
            /\ UNCHANGED pending
       ELSE /\ WebRaise(Get(r.exc))
            /\ UNCHANGED vis_frame

\* Lines 90-95: pipeline.process_frame(frame, metadata)
WebProcessFrame ==
    /\ pc = "process"
    /\ \E i \in {j \in FrameInputs(frame_processors) : Len(j.detections) <= 1} :
          WebProcessed(ProcessFrame(frame_processors, tracks, visualizer,
                                    Get(Get(last_read).frame),
                                    Some([frame_number |-> frame_count,
                                          source_properties |-> Get(props)]),
                                    i.detections, i.byteOut, i.fault))
    /\ UNCHANGED <<frame_processors, frame_result, direct_calls>>
    /\ UNCHANGED <<args, source, props, out, frame_count, last_read, summary>>
    /\ UNCHANGED srcVars

\* Lines 96-111: out.write(vis_frame), the count and the progress display
WebWrite ==
    /\ pc = "write"
    /\ \/ /\ calls' = Append(calls, WriteCall(Get(vis_frame), FALSE))
          /\ frame_count' = frame_count + 1
          /\ pc' = "read"
          /\ UNCHANGED pending
       \/ /\ calls' = Append(calls, WriteCall(Get(vis_frame), TRUE))
          /\ WebRaise("writer")
          /\ UNCHANGED frame_count
    /\ UNCHANGED <<frame_processors, tracks, visualizer, frame_result, direct_calls>>
    /\ UNCHANGED <<args, source, props, out, last_read, vis_frame, summary>>
    /\ UNCHANGED srcVars

\* Line 113: out.release()
WebRelease ==
    /\ pc = "release"
    /\ calls' = Append(calls, [op |-> "release"])
    /\ pc' = "heatmap"
    /\ UNCHANGED <<frame_processors, tracks, visualizer, frame_result, direct_calls>>
    /\ UNCHANGED <<args, source, props, out, frame_count, last_read, vis_frame,
                   pending, summary>>
    /\ UNCHANGED srcVars

\* The value returned at lines 123-129
WebResult(count, heatmap) ==
    [output_path |-> "output/tracked.mp4",
     heatmap_path |-> "output/tracked.heatmap.png",
     frames_processed |-> count, heatmap |-> heatmap]

\* Lines 116-129: the heatmap is generated and saved, the temporary file is
\* deleted, the result is returned through __exit__; or generate_heatmap
\* raises.
WebHeatmap ==
    /\ pc = "heatmap"
    /\ \/ /\ calls' = calls \o <<[op |-> "generate_heatmap", raised |-> FALSE],
                                 [op |-> "imwrite"], [op |-> "unlink"]>>
          /\ source' = Some([Get(source) EXCEPT
                                !.cap = Get(ContextExit(Some(@), None).cap)])
          /\ summary' = Some(Some(WebResult(frame_count,
                              GenerateHeatmap(tracks, visualizer,
                                  <<Get(props).height, Get(props).width>>).image)))
          /\ pc' = "done"
          /\ UNCHANGED pending
       \/ /\ calls' = Append(calls, [op |-> "generate_heatmap", raised |-> TRUE])
          /\ WebRaise("heatmap")
          /\ UNCHANGED <<source, summary>>
    /\ UNCHANGED <<frame_processors, tracks, visualizer, frame_result, direct_calls>>
    /\ UNCHANGED <<args, props, out, frame_count, last_read, vis_frame>>
    /\ UNCHANGED srcVars

\* The exception leaves the with-block: VideoSource.__exit__ releases the
\* source and lets it go on to the except clause.
WebExit ==
    /\ pc = "except"
    /\ source' = Some([Get(source) EXCEPT
                          !.cap = Get(ContextExit(Some(@), pending).cap)])
    /\ pending' = ContextExit(Some(Get(source).cap), pending).propagates
    /\ pc' = "caught"
    /\ UNCHANGED <<frame_processors, tracks, visualizer, calls, frame_result,
                   direct_calls>>
    /\ UNCHANGED <<args, props, out, frame_count, last_read, vis_frame, summary>>
    /\ UNCHANGED srcVars

\* Lines 131-133: `except Exception as e: st.error(...); return None`
WebExcept ==
    /\ pc = "caught"
    /\ calls' = Append(calls, [op |-> "st.error", exc |-> Get(pending)])
    /\ summary' = Some(None)
    /\ pc' = "done"
    /\ UNCHANGED <<frame_processors, tracks, visualizer, frame_result, direct_calls>>
    /\ UNCHANGED <<args, source, props, out, frame_count, last_read, vis_frame,
                   pending>>
    /\ UNCHANGED srcVars

NextWeb ==
    \/ WebStart
    \/ WebRead
    \/ WebProcessFrame
    \/ WebWrite
    \/ WebRelease
    \/ WebHeatmap
    \/ WebExit
    \/ WebExcept

SpecWeb == InitWeb /\ [][NextWeb]_vars


Init == NewPipeline(FALSE) /\ calls = <<>> /\ frame_result = None /\ direct_calls = 0
        /\ IdleVideo /\ IdleSource

Next ==
    \/ \E p \in Procs : AddFrameProcessor(p)
    \/ StartVideo
    \/ ReadFrame
    \/ ProcessFrameStep
    \/ WriteFrame
    \/ Preview
    \/ Progress
    \/ Finally

Spec == Init /\ [][Next]_vars

(***************************************************************************)
(* Properties of process_frame.                                            *)
(***************************************************************************)
CountOp(log, op) == Len(SelectSeq(log, LAMBDA c : c.op = op))
OpsOf(log, op)   == SelectSeq(log, LAMBDA c : c.op = op)

Returned == ~IsNone(frame_result) /\ IsNone(Get(frame_result).exc)

\* C1: every process_frame call that returns has called detect once with the
\* frame, then update once with the detections and (height, width), then
\* get_all_trajectories once, then draw_frame once with the frame, the
\* tracker's output and the tracker's whole trajectory store as third
\* argument; the record's detections and tracked_objects are the detector's
\* and the tracker's outputs.
C1_DetectTrackStoreDraw ==
    Returned =>
        LET fr  == Get(frame_result)
            log == fr.calls
        IN /\ CountOp(log, "detect") = 1
           /\ CountOp(log, "update") = 1
           /\ CountOp(log, "get_all_trajectories") = 1
           /\ CountOp(log, "draw_frame") = 1
           /\ Len(log) >= 4
           /\ log[1] = [op |-> "detect", frame |-> fr.frame]
           /\ log[2] = [op |-> "update", detections |-> fr.detections,
                        frame_shape |-> <<fr.frame.shape[1], fr.frame.shape[2]>>]
           /\ log[3] = [op |-> "get_all_trajectories"]
           /\ log[4] = [op |-> "draw_frame", frame |-> fr.frame,
                        tracked_objects |-> Get(fr.tracked),
                        all_trajectories |-> Some(fr.store)]
           /\ Get(fr.result).detections = fr.detections
           /\ Get(fr.result).tracked_objects = Get(fr.tracked)

\* C4: in a process_frame call that returns, the registered post-processors
\* run once each in registration order; the first receives the renderer's
\* frame, each later one the frame its predecessor returned, all of them the
\* same context of detections, tracked objects and metadata; the frame of the
\* result is the last one's return value (the renderer's frame when none is
\* registered).
C4_ProcessorsInRegistrationOrder ==
    Returned =>
        LET fr   == Get(frame_result)
            runs == OpsOf(fr.calls, "processor")
            n    == Len(fr.processors)
            md   == IF IsNone(fr.metadata) THEN <<>> ELSE Get(fr.metadata)
        IN /\ Len(runs) = n
           /\ \A i \in 1..n :
                /\ runs[i].processor = fr.processors[i]
                /\ runs[i].frame = IF i = 1 THEN Get(fr.rendered)
                                   ELSE RunProcessor(runs[i - 1].processor,
                                                     runs[i - 1].frame)
                /\ runs[i].context = [detections |-> fr.detections,
                                      tracked_objects |-> Get(fr.tracked),
                                      metadata |-> md]
           /\ Get(fr.result).frame =
                 IF n = 0 THEN Get(fr.rendered)
                 ELSE RunProcessor(runs[n].processor, runs[n].frame)
           /\ Get(fr.result).frame.marks = fr.processors

\* Two different processors were registered, and a call ran them and returned.
C4_Witness ==
    /\ Returned
    /\ Get(frame_result).processors = <<"B", "A">>
    /\ Get(Get(frame_result).result).frame.marks = <<"B", "A">>
    /\ Get(Get(frame_result).tracked) # <<>>

(***************************************************************************)
(* Properties of process_video.                                            *)
(***************************************************************************)
Exited    == pc \in {"done", "raised"}
InCall    == pc \notin {"idle", "done", "raised"}
UserQuit  == \E i \in 1..Len(calls) : calls[i].op = "waitKey" /\ calls[i].quit
Delivered == source.cap.pos     \* frames the source has handed out
CleanupOps == {"release", "destroyAllWindows", "get_all_trajectories"}

\* A read that answered (did not raise) and ends the loop: it reported
\* failure or carried no frame.
EndingRead(c) ==
    /\ c.op = "read"
    /\ "ret" \in DOMAIN c
    /\ (~c.ret \/ c.frame = None)

\* C2: when process_video returns without a user quit, having read N frames
\* before the read failed, a progress callback was called N times, the k-th
\* time (from 0) with k and the source's reported frame_count, the detector
\* was called N times and frames_processed is N.
C2_ProgressOncePerFrame ==
    (pc = "done" /\ ~UserQuit) =>
        LET cbs == OpsOf(calls, "progress_callback") IN
        /\ args.progress_callback =>
             /\ Len(cbs) = Delivered
             /\ \A k \in 1..Len(cbs) :
                  /\ cbs[k].frame_num = k - 1
                  /\ source.kind \in {"file", "webcam"} =>
                        cbs[k].total_frames =
                            GetProperties(source.kind, source.cap).frame_count
        /\ CountOp(calls, "detect") = Delivered
        /\ Get(summary).frames_processed = Delivered

\* A file source delivered every frame, each was previewed without a quit and
\* reported to the callback, and the call returned.
C2_Witness ==
    /\ pc = "done" /\ ~UserQuit
    /\ args.progress_callback /\ args.show_preview
    /\ source.kind = "file"
    /\ Delivered = MaxFrames
    /\ CountOp(calls, "progress_callback") = MaxFrames

\* C3: on every exit of the frame loop the opened writer is released once
\* and, with show_preview, the windows are destroyed once (and neither
\* before the exit); an exception of the detector or the tracker ends the
\* call (no second attempt on the frame) and goes on to the caller.
C3_CleanupOnEveryExit ==
    /\ Exited =>
         /\ CountOp(calls, "release") = (IF IsNone(out) THEN 0 ELSE 1)
         /\ CountOp(calls, "destroyAllWindows") = (IF args.show_preview THEN 1 ELSE 0)
    /\ InCall =>
         /\ CountOp(calls, "release") = 0
         /\ CountOp(calls, "destroyAllWindows") = 0
    /\ ~IsNone(pending) =>
         /\ pc \in {"finally", "raised"}
         /\ IsNone(summary)
    /\ pc = "raised" => ~IsNone(pending)
    /\ pending \in {Some("detector"), Some("tracker")} =>
         /\ CountOp(calls, "detect") = Delivered
         /\ CountOp(calls, "update") = Delivered - (IF pending = Some("detector") THEN 1 ELSE 0)
         /\ CountOp(calls, "draw_frame") = Delivered - 1

\* The tracker raised on the second frame of a run with a writer and a preview,
\* and the exception reached the caller.
C3_Witness ==
    /\ pc = "raised"
    /\ pending = Some("tracker")
    /\ ~IsNone(out) /\ args.show_preview
    /\ frame_count = 1
    /\ CountOp(calls, "release") = 1

\* C7: a read of a file or webcam source that reports failure carries no
\* frame; and after the first read that reports failure or carries no frame
\* nothing but the cleanup and the final statistics is called, no exception
\* is pending, and the call returns its summary.
C7_ReadFailureEndsLoop ==
    \A i \in 1..Len(calls) :
        /\ (calls[i].op = "read" /\ "ret" \in DOMAIN calls[i]
              /\ source.kind \in {"file", "webcam"} /\ ~calls[i].ret)
             => calls[i].frame = None
        /\ EndingRead(calls[i]) =>
             /\ \A j \in (i + 1)..Len(calls) : calls[j].op \in CleanupOps
             /\ pc \in {"finally", "done"}
             /\ IsNone(pending)
             /\ pc = "done" =>
                   /\ ~IsNone(summary)
                   /\ calls[Len(calls)].op = "get_all_trajectories"

\* A webcam delivered a frame, its next read failed, and the call returned.
C7_Witness ==
    /\ pc = "done"
    /\ source.kind = "webcam"
    /\ Delivered >= 1
    /\ \E i \in 1..Len(calls) : EndingRead(calls[i]) /\ ~calls[i].ret

\* C8: with an output path the writer is opened once, with the source's
\* reported fps and (width, height), and every frame process_frame returns
\* is handed to it once, right after it is returned (so before the next
\* read) and in read order; without an output path there is no writer and
\* no write.
C8_EveryFrameWritten ==
    pc # "idle" =>
        IF ~IsNone(args.output_path)
        THEN LET reported == GetProperties(source.kind, source.cap)
                 writes   == OpsOf(calls, "write")
             IN /\ ~IsNone(out)
                /\ CountOp(calls, "VideoWriter") = 1
                /\ calls[2] = [op |-> "VideoWriter",
                               writer |-> [path |-> Get(args.output_path),
                                           fps |-> reported.fps,
                                           size |-> <<reported.width, reported.height>>]]
                /\ \A i \in 1..Len(calls) :
                     /\ calls[i].op = "process_frame" =>
                          IF i = Len(calls) THEN pc = "write"
                          ELSE /\ calls[i + 1].op = "write"
                               /\ calls[i + 1].frame = calls[i].frame
                     /\ calls[i].op = "write" =>
                          i > 1 /\ calls[i - 1].op = "process_frame"
                /\ \A k \in 1..Len(writes) : writes[k].frame.id = k - 1
        ELSE /\ IsNone(out)
             /\ CountOp(calls, "VideoWriter") = 0
             /\ CountOp(calls, "write") = 0

\* A run with an output path wrote every frame of its source and returned.
C8_Witness ==
    /\ pc = "done"
    /\ ~IsNone(out)
    /\ Delivered = MaxFrames
    /\ Len(OpsOf(calls, "write")) = MaxFrames
    /\ \A i \in 1..Len(calls) : calls[i].op = "write" => ~calls[i].raised

\* C10: the properties a file source reports carry a frame_count >= 0, those
\* of a webcam carry -1, and for a webcam or a source that reports no
\* frame_count every progress callback is given total_frames = -1.
C10_FrameCountOrSentinel ==
    pc # "idle" =>
        /\ source.kind = "file" => props.frame_count >= 0
        /\ source.kind = "webcam" => props.frame_count = -1
        /\ (source.kind = "webcam" \/ "frame_count" \notin DOMAIN props) =>
             \A i \in 1..Len(calls) :
                 (calls[i].op = "progress_callback" /\ "total_frames" \in DOMAIN calls[i])
                     => calls[i].total_frames = -1

(***************************************************************************)
(* Properties of the sources.                                              *)
(***************************************************************************)
\* C5: every release() of a file or webcam source, however many there are
\* and whatever reads (answered or raised) came before, returns without
\* raising and leaves is_open false.
C5_ReleaseIsIdempotent ==
    /\ \A i \in 1..Len(src_log) :
          src_log[i].op = "release" => (~src_log[i].raised /\ ~src_log[i].is_open)
    /\ (src_log # <<>> /\ src_log[Len(src_log)].op = "release") =>
          (IsNone(src_exc) /\ ~IsOpen(cap))

\* A read raised, the source was released, read again and released again.
C5_Witness ==
    \E i, j, k, l \in 1..Len(src_log) :
        /\ i < j /\ j < k /\ k < l
        /\ src_log[i].op = "read" /\ src_log[i].raised
        /\ src_log[j].op = "release"
        /\ src_log[k].op = "read"
        /\ src_log[l].op = "release"

\* C6: leaving the with-block of a source calls release on the capture
\* exactly once and leaves it closed, whether the block ended normally or by
\* an exception (that of a read included), and the exception of the block is
\* the one that goes on to the caller.
C6_WithBlockReleasesOnce ==
    /\ \A i \in 1..Len(src_log) :
          src_log[i].op = "__exit__" =>
              /\ src_log[i].releases = 1
              /\ ~src_log[i].is_open
              /\ src_log[i].propagated = src_log[i].exc
    /\ (src_log # <<>> /\ src_log[Len(src_log)].op = "__exit__") =>
          /\ src_exc = src_log[Len(src_log)].exc
          /\ ~IsOpen(cap)
    /\ scope = "left" => CountOp(src_log, "__exit__") = 1
    /\ scope = "inside" => CountOp(src_log, "__exit__") = 0

\* A read raised inside the with-block and its exception left the block.
C6_Witness ==
    /\ scope = "left"
    /\ src_log[Len(src_log)].op = "__exit__"
    /\ src_exc = Some("cv2.error")
    /\ Get(cap).releases = 1

\* C9: a file source on a missing path raises FileNotFoundError without
\* creating a capture; a file or webcam source whose capture does not open
\* raises RuntimeError; either way the constructor made one attempt at most
\* and no source object exists afterwards.
C9_ConstructionFailsFast ==
    scope # "none" =>
        LET c == src_log[1] IN
        /\ c.captures <= 1
        /\ (c.kind = "file" /\ ~c.exists) =>
              (scope = "failed" /\ src_exc = Some("FileNotFoundError") /\ c.captures = 0)
        /\ (~c.opens /\ (c.kind = "webcam" \/ c.exists)) =>
              (scope = "failed" /\ src_exc = Some("RuntimeError") /\ c.captures = 1)
        /\ scope = "failed" =>
              (IsNone(src_obj) /\ IsNone(cap) /\ Len(src_log) = 1)
        /\ scope # "failed" => (c.opens /\ (c.kind = "webcam" \/ c.exists))

\* A file source was constructed on a path that is not there.
C9_Witness ==
    /\ scope = "failed"
    /\ src_log[1].kind = "file" /\ ~src_log[1].exists
    /\ src_exc = Some("FileNotFoundError")

(***************************************************************************)
(* Properties of process_frame on a frame without detections.              *)
(***************************************************************************)
\* C11: a process_frame call for which the detector returns no detections
\* and that returns has an empty tracked-object list, in the tracker's
\* answer and in the result, and a rendered frame and a result frame of the
\* input frame's dimensions, whatever the tracker already stores.
C11_EmptyDetectionsEmptyTracks ==
    (Returned /\ Get(frame_result).detections = <<>>) =>
        LET fr == Get(frame_result)
        IN /\ Get(fr.tracked) = <<>>
           /\ Get(fr.result).tracked_objects = <<>>
           /\ Get(fr.rendered).shape = fr.frame.shape
           /\ Get(fr.result).frame.shape = fr.frame.shape

\* A call without detections returned on a tracker that holds trajectories.
C11_Witness ==
    /\ Returned
    /\ Get(frame_result).detections = <<>>
    /\ DOMAIN Get(frame_result).store # {}
    /\ direct_calls = 2

(***************************************************************************)
(* Properties of draw_frame over a sequence of calls.                      *)
(***************************************************************************)
\* C12: in every draw_frame call, whatever the four flags and the tracked
\* objects, the caller's frame after the call is the frame before it, and
\* the frame returned is another array, which carries everything drawn.
C12_InputFrameUntouched ==
    \A i \in 1..Len(calls) :
        /\ calls[i].input = calls[i].frame
        /\ calls[i].returned \in {"copy", "blend"}
        /\ Get(calls[i].rendered).objs =
              DrawObjects(calls[i].before, calls[i].tracked_objects)
        /\ Get(calls[i].rendered).id = calls[i].frame.id

\* A call drew a box, a label and a trajectory, and another blended the
\* heatmap and drew as well.
C12_Witness ==
    /\ \E i \in 1..Len(calls) :
          /\ ~calls[i].overlay
          /\ Len(Get(calls[i].rendered).objs) = 3
    /\ \E i \in 1..Len(calls) :
          /\ calls[i].overlay
          /\ Get(calls[i].rendered).objs # <<>>
          /\ ~IsNone(Get(calls[i].rendered).heat)

OverlayCalls(i, j) == Cardinality({k \in (i + 1)..j : calls[k].overlay})
Interval(i) == calls[i].before.heatmap_update_interval
Blended(i)  == Get(Get(calls[i].rendered).heat).image

Drawn == calls[Len(calls)]

LastCall(op) == ~IsNone(frame_result) /\ Get(frame_result).op = op

VisualizerReaders ==
    {"toggle_heatmap", "set_heatmap_alpha", "reset_heatmap_cache", "draw_frame",
     "create_heatmap", "create_realtime_heatmap", "generate_heatmap"}

\* C13: after set_heatmap_alpha(a) the opacity is 0 for a < 0, 1 for a > 1
\* and a otherwise, and the cache, the frame counter and the enable flag are
\* what they were.
C13_AlphaClamped ==
    LastCall("set_heatmap_alpha") =>
        LET c == Get(frame_result)
        IN /\ visualizer.heatmap_alpha =
                 (IF c.alpha < 0 THEN 0 ELSE IF c.alpha > One THEN One ELSE c.alpha)
           /\ visualizer.heatmap_cache = c.before.heatmap_cache
           /\ visualizer.frame_count = c.before.frame_count
           /\ visualizer.show_heatmap = c.before.show_heatmap

\* The opacity was set to 1.5 on a visualizer that holds a cached heatmap.
C13_Witness ==
    /\ LastCall("set_heatmap_alpha")
    /\ Get(frame_result).alpha = 1500
    /\ ~IsNone(visualizer.heatmap_cache)
    /\ visualizer.frame_count > 0

\* C14: a step that is a call of toggle_heatmap, set_heatmap_alpha,
\* reset_heatmap_cache, draw_frame, create_heatmap, create_realtime_heatmap
\* or generate_heatmap leaves every stored trajectory as it was.
C14_OnlyUpdateChangesStore ==
    [][(~IsNone(frame_result') /\ Get(frame_result').op \in VisualizerReaders)
          => tracks' = tracks]_vars

\* generate_heatmap was called after another visualizer call on a tracker that
\* holds a trajectory.
C14_Witness ==
    /\ LastCall("generate_heatmap")
    /\ direct_calls = 2
    /\ DOMAIN tracks # {}
    /\ \E id \in DOMAIN tracks : tracks[id] # <<>>

\* C16: after create_realtime_heatmap with decay_factor = 0 the cache is the
\* field the call keeps for the given trajectories alone (their single-frame
\* contribution, blurred and normalized), whatever the cache held before.
C16_ZeroDecayKeepsNoMemory ==
    (LastCall("create_realtime_heatmap") /\ Get(frame_result).decay = 0) =>
        LET c == Get(frame_result)
        IN /\ IsNone(c.exc)
           /\ visualizer.heatmap_cache =
                 Some(BlurNormalize(FreshContribution(c.shape, c.store), c.shape))

\* C17: a create_realtime_heatmap call that finds a cache combines a
\* single-channel field of the frame's size with the fresh contribution,
\* also when the cache was a colorized image of that size, and keeps a
\* single-channel field as the next cache.
C17_CombinesSingleChannelCache ==
    (LastCall("create_realtime_heatmap")
        /\ ~IsNone(Get(frame_result).before.heatmap_cache)) =>
        LET c == Get(frame_result)
        IN /\ IsNone(c.exc)
           /\ ~IsNone(c.combined)
           /\ Get(c.combined).channels = 1
           /\ Get(c.combined).shape = c.shape
           /\ Get(visualizer.heatmap_cache).channels = 1
           /\ Get(visualizer.heatmap_cache).shape = c.shape

Uniform(f) == \A c \in DOMAIN f, d \in DOMAIN f : f[c] = f[d]

\* C18: create_heatmap returns, for every store, a 3-channel image of the
\* requested height and width without NaN; the normalization denominator is
\* not zero, and a uniform blurred field gives a uniform image.
C18_StaticHeatmapWellFormed ==
    LastCall("create_heatmap") =>
        LET c       == Get(frame_result)
            blurred == GaussianBlur(StaticLoop(Zeros(c.shape), c.store,
                                               SortedIds(DOMAIN c.store)), c.shape)
        IN /\ c.image.shape = c.shape
           /\ DOMAIN c.image.px = Cells(c.shape)
           /\ c.image.channels = 3
           /\ c.image.finite
           /\ Denominator(blurred) # 0
           /\ Uniform(blurred) => Uniform(c.image.px)
           /\ \A x \in DOMAIN c.image.px : \A k \in 1..3 :
                 c.image.px[x][k] \in 0..MaxLevel

\* create_heatmap rendered a store whose points cover the whole frame: the
\* blurred field is uniform and not zero.
C18_Witness ==
    /\ LastCall("create_heatmap")
    /\ Get(frame_result).store = CoveringStore
    /\ Get(frame_result).shape = <<2, 2>>
    /\ Uniform(Get(frame_result).image.px)

\* C19: generate_heatmap(shape) returns the static heatmap of the tracker's
\* store at the time of the call, whatever the visualizer's cache and frame
\* counter are, and leaves both and the store as they were.
C19_GenerateHeatmapIgnoresLiveState ==
    LastCall("generate_heatmap") =>
        LET c == Get(frame_result)
        IN /\ c.image = CreateHeatmap(c.shape, c.store)
           /\ c.store = tracks
           /\ visualizer = c.before

\* generate_heatmap was called for a shape other than that of the render a
\* draw_frame call had left in the cache.
C19_Witness ==
    /\ LastCall("generate_heatmap")
    /\ ~IsNone(visualizer.heatmap_cache)
    /\ Get(visualizer.heatmap_cache).shape # Get(frame_result).shape
    /\ visualizer.frame_count > 0
    /\ DOMAIN tracks # {}

(***************************************************************************)
(* Properties of the reset of tracking.                                    *)
(***************************************************************************)
\* The store that holds the centers of the given tracked objects, appended
\* in order to store
RECURSIVE Recorded(_, _)
Recorded(store, objects) ==
    IF objects = <<>> THEN store
    ELSE Recorded(StoreAppend(store, objects[1].id, objects[1].center), Tail(objects))

\* The store that holds what the updates after the last reset reported
RECURSIVE SinceReset(_, _, _)
SinceReset(store, log, i) ==
    IF i > Len(log) THEN store
    ELSE IF log[i].op = "reset" THEN SinceReset(EmptyStore, log, i + 1)
    ELSE SinceReset(Recorded(store, log[i].objects), log, i + 1)

\* C20: right after a reset get_all_trajectories is empty, and at any time
\* the store, the trajectories of a summary and the image of
\* generate_heatmap hold exactly the identities and points the updates
\* since the last reset recorded.
C20_ResetDropsHistory ==
    LET expected == SinceReset(EmptyStore, calls, 1)
    IN /\ (calls # <<>> /\ calls[Len(calls)].op = "reset")
              => GetAllTrajectories(tracks) = EmptyStore
       /\ GetAllTrajectories(tracks) = expected
       /\ LastCall("summary") => Get(frame_result).value = expected
       /\ LastCall("generate_heatmap") =>
              Get(frame_result).value = CreateHeatmap(Get(frame_result).shape, expected)

\* An update recorded a point, the tracking was reset, an update recorded a
\* point of another identity, and a summary was taken.
C20_Witness ==
    /\ Len(calls) = 3
    /\ calls[1].op = "update" /\ calls[1].objects # <<>>
    /\ calls[2].op = "reset"
    /\ calls[3].op = "update" /\ calls[3].objects # <<>>
    /\ calls[3].objects[1].id # calls[1].objects[1].id
    /\ LastCall("summary")

(***************************************************************************)
(* Properties of one ObjectTracker and of the mapping it returns.          *)
(***************************************************************************)
IsPrefix(s, t) == Len(s) <= Len(t) /\ SubSeq(t, 1, Len(s)) = s

\* C21: the trajectory store only grows: in every step the identities stay,
\* an identity that appears has a point, and each identity's points before
\* the step are a prefix of its points after it.
C21_StoreOnlyGrows ==
    [][/\ DOMAIN tracks \subseteq DOMAIN tracks'
       /\ \A id \in DOMAIN tracks' \ DOMAIN tracks : tracks'[id] # <<>>
       /\ \A id \in DOMAIN tracks : IsPrefix(tracks[id], tracks'[id])]_vars

\* Three updates saw identity 1 each time, the last of them with identity 2
\* for the first time.
C21_Witness ==
    /\ Len(calls) = 3
    /\ \A i \in 1..3 : calls[i].op = "update"
    /\ DOMAIN calls[2].before = {1}
    /\ DOMAIN tracks = {1, 2}
    /\ Len(tracks[1]) = 3 /\ Len(tracks[2]) = 1

(***************************************************************************)
(* Properties of the summary process_video returns.                        *)
(***************************************************************************)
\* The identities the tracker reported during the call, as draw_frame was
\* given them
EverTracked ==
    UNION {{calls[i].tracked_objects[k].id : k \in 1..Len(calls[i].tracked_objects)} :
              i \in {j \in 1..Len(calls) : calls[j].op = "draw_frame"}}

\* C22: the summary's total_objects_tracked is the number of identities the
\* tracker has recorded, which are the keys of the summary's trajectories;
\* when the tracker never reported an object the total is 0 and the
\* trajectories are empty.
C22_TotalIsNumberOfIdentities ==
    pc = "done" =>
        LET s == Get(summary)
        IN /\ DOMAIN s.trajectories = EverTracked
           /\ s.total_objects_tracked = Cardinality(DOMAIN s.trajectories)
           /\ s.total_objects_tracked = Cardinality(EverTracked)
           /\ s.trajectories = tracks
           /\ EverTracked = {} =>
                 s.total_objects_tracked = 0 /\ s.trajectories = EmptyStore

\* A run returned in which one identity was seen in two frames: two points,
\* one identity.
C22_Witness ==
    /\ pc = "done"
    /\ Get(summary).frames_processed = 2
    /\ EverTracked = {1}
    /\ Len(Get(summary).trajectories[1]) = 2
    /\ Get(summary).total_objects_tracked = 1

\* C26: when process_video returns, after a user quit as well, the
\* frames_processed of the summary is the number of frames that went
\* through process_frame and, with an output path, the number of frames
\* written.
C26_FramesProcessedCountsFrames ==
    pc = "done" =>
        /\ Get(summary).frames_processed = CountOp(calls, "process_frame")
        /\ ~IsNone(out) =>
              Get(summary).frames_processed = CountOp(calls, "write")

\* The points of identity id in store, none when it has no entry
PointsOf(store, id) == IF id \in DOMAIN store THEN store[id] ELSE <<>>

\* c is the center of the box xyxy cut to integers (toward zero; the boxes
\* have no negative coordinate)
IsIntegerCenter(c, xyxy) ==
    /\ 2 * c[1] <= xyxy[1] + xyxy[3] /\ xyxy[1] + xyxy[3] < 2 * c[1] + 2
    /\ 2 * c[2] <= xyxy[2] + xyxy[4] /\ xyxy[2] + xyxy[4] < 2 * c[2] + 2

\* C28: an update call appends to the trajectory of each identity it
\* returns exactly one point, the integer center of that object's box, and
\* leaves the other trajectories as they were; each returned object's
\* trajectory is the identity's stored sequence after the append and ends
\* with the object's center.
C28_UpdateAppendsOneCenter ==
    [][(Len(calls') = Len(calls) + 1 /\ calls'[Len(calls')].op = "update") =>
          LET objs == calls'[Len(calls')].objects
              ids  == {objs[k].id : k \in 1..Len(objs)}
          IN /\ \A k \in 1..Len(objs) :
                   /\ IsIntegerCenter(objs[k].center, objs[k].bbox)
                   /\ tracks'[objs[k].id] =
                          Append(PointsOf(tracks, objs[k].id), objs[k].center)
                   /\ objs[k].trajectory = tracks'[objs[k].id]
                   /\ objs[k].trajectory[Len(objs[k].trajectory)] = objs[k].center
             /\ DOMAIN tracks' = DOMAIN tracks \cup ids
             /\ \A id \in DOMAIN tracks \ ids : tracks'[id] = tracks[id]]_vars

\* An update recorded identities 1 and 2 (the center of the second box is
\* cut from (2.5, 2) to (2, 2)), and the next one returned identity 2 alone.
C28_Witness ==
    /\ Len(calls) = 2
    /\ calls[1].op = "update" /\ Len(calls[1].objects) = 2
    /\ calls[1].objects[2].center = <<2, 2>>
    /\ LET c == calls[2]
       IN /\ c.op = "update"
          /\ c.before = calls[1].before @@ [i \in {1, 2} |-> <<calls[1].objects[i].center>>]
          /\ Len(c.objects) = 1
          /\ c.objects[1].id = 2
          /\ tracks[2] = <<<<2, 2>>, <<1, 1>>>>
          /\ tracks[1] = c.before[1]

\* The store as the update calls of the log built it
RECURSIVE UpdatesOnly(_, _, _)
UpdatesOnly(store, log, i) ==
    IF i > Len(log) THEN store
    ELSE IF log[i].op = "update"
         THEN UpdatesOnly(Recorded(store, log[i].objects), log, i + 1)
         ELSE UpdatesOnly(store, log, i + 1)

\* C29: the mapping get_all_trajectories returned keeps, through later
\* update calls, the identities and the point sequences it was returned
\* with (but for the entries the caller deleted), and what the caller does
\* to it leaves the tracker's store as the updates built it.
C29_ReturnedMappingIsSnapshot ==
    /\ ~IsNone(frame_result) =>
          LET snap == Get(frame_result)
          IN Held(snap, tracks) = [k \in snap.keys |-> snap.taken[k]]
    /\ tracks = UpdatesOnly(EmptyStore, calls, 1)

(***************************************************************************)
(* Properties of the heatmap cache under any order of the visualizer's     *)
(* methods.                                                                *)
(***************************************************************************)
\* C27: whenever draw_frame blends the heatmap cache onto a frame, the cache
\* is a colorized 3-channel image of the frame's height and width (and the
\* blend is made: the call returns).
C27_BlendedCacheIsFrameSizedColorImage ==
    (LastCall("draw_frame") /\ Get(frame_result).overlay) =>
        LET c == Get(frame_result)
        IN /\ ~IsNone(c.after.heatmap_cache)
           /\ Get(c.after.heatmap_cache).channels = 3
           /\ Get(c.after.heatmap_cache).shape = c.frame.shape
           /\ IsNone(c.exc)

(***************************************************************************)
(* Properties of what draw_frame draws.                                    *)
(***************************************************************************)
\* C23: when draw_frame blends the heatmap, it blends it onto the copy
\* before any annotation of the call is drawn: nothing drawn by the call is
\* under the heatmap, and every annotation of the call is on top of it.
C23_HeatmapUnderAnnotations ==
    \A i \in 1..Len(calls) :
        calls[i].overlay =>
            /\ calls[i].returned = "blend"
            /\ ~IsNone(Get(calls[i].rendered).heat)
            /\ Get(Get(calls[i].rendered).heat).under = <<>>
            /\ Get(calls[i].rendered).objs =
                  DrawObjects(calls[i].before, calls[i].tracked_objects)

\* A call blended the heatmap and drew a box, a label and a trajectory of
\* one object.
C23_Witness ==
    \E i \in 1..Len(calls) :
        /\ calls[i].overlay
        /\ Len(calls[i].tracked_objects) = 1
        /\ {Get(calls[i].rendered).objs[k].kind : k \in 1..Len(Get(calls[i].rendered).objs)}
              = {"rectangle", "text", "trajectory"}

\* The trajectories the last draw_frame call drew, each with the object it
\* was drawn for
TrailsDrawn ==
    IF IsNone(frame_result) THEN {}
    ELSE LET c == Get(frame_result)
         IN {[prim |-> c.rendered.objs[j], obj |-> c.tracked_objects[k]] :
                j \in {i \in 1..Len(c.rendered.objs) :
                          c.rendered.objs[i].kind = "trajectory"},
                k \in 1..Len(c.tracked_objects)}

Min(a, b) == IF a <= b THEN a ELSE b

\* C24: for every trajectory_length >= 0 the points draw_frame uses for an
\* object's lines and circles are the last min(trajectory_length,
\* len(trajectory)) points of the object's trajectory.
C24_DrawsLastTrajectoryLengthPoints ==
    \A d \in TrailsDrawn :
        d.prim.id = d.obj.id =>
            LET n     == Get(frame_result).before.trajectory_length
                whole == d.obj.trajectory
                m     == Min(n, Len(whole))
                used  == d.prim.points
            IN /\ Len(used) = m
               /\ Len(used) <= n
               /\ \A j \in 1..Len(used) :
                     Len(whole) - m + j \in 1..Len(whole)
                        /\ used[j] = whole[Len(whole) - m + j]
               /\ \A j \in DOMAIN d.prim.segments :
                     d.prim.segments[j].from = used[j]
                        /\ d.prim.segments[j].to = used[j + 1]

\* C25: the radii of the circles on a drawn trajectory do not decrease from
\* the oldest to the newest, and on a drawn trajectory of 50 points the
\* newest circle's radius is larger than the oldest's.
C25_DotRadiusGrows ==
    \A d \in TrailsDrawn :
        LET dots == d.prim.dots
        IN /\ \A k \in DOMAIN dots, l \in DOMAIN dots :
                 k <= l => dots[k].radius <= dots[l].radius
           /\ Len(d.prim.points) = TrajectoryLength =>
                 dots[Len(dots)].radius > dots[1].radius

(***************************************************************************)
(* Properties of the web app's process_video_file.                         *)
(***************************************************************************)
\* C30: when process_video_file has returned, by whichever exit of the
\* frame loop, the writer that was opened has been released and the
\* temporary file has been deleted.
C30_WebCleanupOnEveryExit ==
    (pc = "done" /\ CountOp(calls, "VideoWriter") = 1) =>
        /\ CountOp(calls, "release") = 1
        /\ CountOp(calls, "unlink") = 1

====
